---- MODULE Spec2Model ----
(***************************************************************************)
(* BustAPI: the request dispatch wrapper (dispatch.py), the middleware     *)
(* chain (middleware.py), the session adapter (sessions.py) and the        *)
(* WebSocket bridge (websocket.py).                                        *)
(*                                                                         *)
(* Spec     : HTTP dispatch on one reused frame.  An execution frame (a    *)
(*            delivering native thread, or a task of a cooperative         *)
(*            scheduler) runs the wrapper of create_sync_wrapper /         *)
(*            create_async_wrapper statement by statement; the two         *)
(*            wrappers differ in the awaited handler call only.            *)
(* ConcSpec : the same wrapper on two frames at once.                      *)
(* WsSpec   : the WebSocket bridge: engine callbacks on native threads,    *)
(*            the event loops' ready queues and the handler coroutines.    *)
(***************************************************************************)
EXTENDS Integers, Sequences, FiniteSets, TLC

(* ------------------------------ bounds ------------------------------- *)
MaxBefore == 1
MaxMw == 2
MaxAfter == 1
MaxTeardown == 2
MaxRequests == 1
MaxMsgs == 2
MaxReceives == 3
MaxSaves == 2
MaxHandlers == 3
MaxSegLen == 2
MaxConnects == 3

(* Execution frames: threads of the engine's pool / tasks of a scheduler. *)
Frames == {"f1", "f2"}

VARIABLES
    (* application configuration, fixed after startup *)
    before_request_funcs,   \* number of registered before-request hooks
    middlewares,            \* number of registered middleware objects (the
                            \* list MiddlewareManager.add appends to, which
                            \* the wrapper reads as middleware_manager.middlewares)
    after_request_funcs,    \* number of registered after-request hooks
    teardown_request_funcs, \* number of registered teardown callbacks
    secret_key,             \* TRUE iff a signing key is configured
    is_async,               \* per frame, for the route its requests are matched
                            \* to: TRUE: create_async_wrapper, FALSE:
                            \* create_sync_wrapper
    error_handler_spec,     \* app.error_handler_spec: the (key, handler) items
                            \* of the dict, in its iteration order
    workload,               \* what the clients send and what the application
                            \* code does: the cookies requests carry, the
                            \* session methods hooks and handler call, the
                            \* parameter outcomes, the handler's results and
                            \* the exceptions it raises
    (* per execution frame *)
    slot,       \* value of _request_ctx in the frame's context
    served,     \* number of requests the frame has been handed so far
    pc,         \* position inside wrapper()
    idx,        \* loop index of the running for-loop
    request,    \* local `request`
    token,      \* local `token` ([bound |-> FALSE] when not in locals())
    session,    \* local `session`
    response,   \* local `response` / `mw_response`
    outcome,    \* what the wrapper call hands to the engine
    exc,        \* the exception the except clause caught
    log         \* history of the calls made for the current request

VARIABLES
    (* WebSocketHandler and its WebSocket objects, per connection id *)
    connections,      \* self._connections: ids in the live registry
    tasks,            \* self._tasks: "none", or the kind of the stored handle
    background_loop,  \* TRUE iff self._background_loop exists
    messages,         \* ws._messages, the inbound queue
    closed,           \* ws._closed
    (* the schedulers *)
    ready,            \* per event loop: callbacks scheduled, not yet run
    owner,            \* per connection: the loop its handler coroutine runs on
    hstate,           \* per connection: state of the handler coroutine
    (* the engine and the history *)
    cstate,           \* per connection: "new", "open", "gone" as the engine sees it
    delivered,        \* per connection: the payloads (and the disconnect)
                      \* the engine delivered, in callback order
    observed,         \* per connection: the results of the handler's receive()
    scheduled,        \* per connection: executions of the handler coroutine
                      \* handed to a loop
    escaped,          \* the exceptions that left an engine callback
    parked            \* connections whose waiting receive() has an item the
                      \* sleeping loop does not know of

VARIABLES
    (* one session object followed from open_session to save_session, and
       the client that keeps the cookie *)
    sess_obj,     \* the session open_session returned
    sess_opened,  \* its content when it was opened
    sess_via_jar, \* TRUE iff it was opened from the cookie the client kept
    sess_resp,    \* the response of the latest save_session call
    sess_saves,   \* save_session calls since the session last changed
    sess_jar,     \* the session cookie the client holds
    sess_saved    \* the session content when that cookie was written

VARIABLES
    (* the error handler table at work *)
    err_regs,       \* every errorhandler() registration made, in order
    err_exception,  \* the exception last given to _handle_exception
    err_response    \* the response it returned

VARIABLES
    (* one call of _extract_path_params and of the handler it feeds *)
    par_rule,    \* the rule of the route: its parts between the slashes
    par_path,    \* request.path: its segments between the slashes
    par_kwargs,  \* the kwargs dict: <<name, value>> pairs
    par_pc       \* "start", "extracted", "called"

VARIABLES
    (* the background loops of the WebSocketHandler objects and the engine
       threads that deliver on_connect where no loop is running *)
    bg_loop,      \* per handler object: self._background_loop, 0 while the
                  \* attribute is missing
    bg_created,   \* event loops (with their threads) created so far
    bg_pc,        \* per engine thread: its position inside on_connect
    bg_handler,   \* per engine thread: the handler object on_connect was
                  \* called on
    bg_connects,  \* on_connect callbacks delivered so far
    bg_used       \* the loops handler coroutines were submitted to

VARIABLES
    (* the two registries of one WebSocketHandler and the threads that run
       its callbacks, one dictionary operation at a time *)
    reg_connections,  \* self._connections: the ids that have an entry
    reg_tasks,        \* self._tasks: the ids that have an entry
    reg_pc,           \* per thread: its position inside the callback it runs
    reg_fn,           \* per thread: the callback it runs
    reg_id,           \* per thread: the connection id of that callback
    reg_engine,       \* per id: "new", "open", "gone" as the engine sees it
    reg_owner,        \* per id: where on_connect scheduled the handler
    reg_handler,      \* per id: "none", "scheduled", "finished"
    reg_hooked,       \* ids whose task got _task_done_callback
    reg_cleaned,      \* ids whose _task_done_callback has been started
    reg_raised        \* the KeyErrors that left a callback

evars == <<err_regs, err_exception, err_response>>

gvars == <<reg_connections, reg_tasks, reg_pc, reg_fn, reg_id, reg_engine,
           reg_owner, reg_handler, reg_hooked, reg_cleaned, reg_raised>>

uvars == <<par_rule, par_path, par_kwargs, par_pc>>

bvars == <<bg_loop, bg_created, bg_pc, bg_handler, bg_connects, bg_used>>

\* the components added to the model after the dispatch, the sessions and
\* the error handlers
restvars == <<uvars, bvars, gvars>>

svars == <<sess_obj, sess_opened, sess_via_jar, sess_resp, sess_saves,
           sess_jar, sess_saved>>

wvars == <<connections, tasks, background_loop, messages, closed, ready,
           owner, hstate, cstate, delivered, observed, scheduled, escaped,
           parked>>

\* the state of the wrapper calls in progress
pvars == <<slot, served, pc, idx, request, token, session, response,
           outcome, exc, log>>

hookvars == <<before_request_funcs, middlewares, after_request_funcs,
              teardown_request_funcs, secret_key, is_async>>

cfgvars == <<hookvars, error_handler_spec, workload>>

dvars == <<cfgvars, pvars>>

(* ------------------------------ values ------------------------------- *)
Empty == <<>>

NoToken == [bound |-> FALSE, old |-> Empty, used |-> FALSE]

\* session content: a set of <<key, value>> pairs, one pair per key.  The
\* values are named after their Python type.
Keys == {"a", "b"}

Values == {"str", "tuple", "list"}

Contents ==
    {d \in SUBSET (Keys \X Values) :
        \A p, q \in d : p[1] = q[1] => p = q}

\* a session object (SessionMixin, sessions.py:11-32); present = FALSE is
\* the `session = None` of the wrapper
NoSession == [present |-> FALSE, data |-> {}, modified |-> FALSE]

\* a cookie: what a response sets (kind none / expired / signed) or what a
\* request carries (kind absent / signed / tampered / garbage / badpayload)
NoCookie == [kind |-> "none", val |-> {}, attrs |-> {}]

\* a Response: the step that produced it (origin, by), the type and value of
\* the result it was made from (kind, val), and its status_code, data
\* (bytes) and headers
NoResponse == [origin |-> "none", by |-> 0, kind |-> "none", truthy |-> FALSE,
               tags |-> <<>>, cookie |-> NoCookie,
               val |-> <<>>, status |-> 0, body |-> <<>>, headers |-> {}]

\* the (body, status, headers) tuple handed to the engine
NoTriple == [body |-> <<>>, status |-> 0, headers |-> {}]

NoOutcome == [kind |-> "none", resp |-> NoResponse, path |-> "none",
              triple |-> NoTriple]

\* one entry of the call history: the step called, its index in its list,
\* the value the current-request slot held during the call, how the call
\* ended, the response it was given and the value it returned
Event(ev, i, cur, out, inp, ret) ==
    [ev |-> ev, idx |-> i, cur |-> cur, out |-> out, inp |-> inp, ret |-> ret]

(* ---------------- request context (http/request.py) ------------------- *)
\* a slot shared by all frames (a process-global instead of a frame-local)
CtxSetGlobal(sl, f, value) == [g \in Frames |-> value]

\* _request_ctx.set(value): binds the frame's slot, the token remembers the
\* value the slot held before.
CtxSet(sl, f, value) == [sl EXCEPT ![f] = value]

CtxToken(sl, f) == [bound |-> TRUE, old |-> sl[f], used |-> FALSE]

\* _request_ctx.reset(token): restores the remembered value; a token can be
\* used once only, a second reset raises RuntimeError.
CtxResetRaises(tok) == tok.used

CtxReset(sl, f, tok) == [sl EXCEPT ![f] = tok.old]

(* ------------------------ sessions (sessions.py) ---------------------- *)
\* a constructor that leaves the flag set
NewSessionDirty(d) == [present |-> TRUE, data |-> d, modified |-> TRUE]

\* SessionMixin.__init__(initial): the content, with the flag cleared
NewSession(d) == [present |-> TRUE, data |-> d, modified |-> FALSE]

\* `not session` / `if session:` -- a session is a dict, an empty one is
\* falsy.
SessionEmpty(sess) == sess.data = {}

SessionTruthy(sess) == sess.present /\ ~SessionEmpty(sess)

\* the serializer is built with serializer=json (sessions.py:77): json.dumps
\* writes a tuple as an array
JsonDump(v) == IF v = "tuple" THEN "list" ELSE v

\* json.loads reads an array as a list
JsonLoad(v) == v

\* signer.dumps(session): the signed payload
SignerDumps(d) == {<<p[1], JsonDump(p[2])>> : p \in d}

\* s.loads(val) for a payload whose signature verifies
SignerLoads(val) == {<<p[1], JsonLoad(p[2])>> : p \in val}

\* a request cookie that carries the payload val under a valid signature
SignedCookie(val) == [kind |-> "signed", val |-> val, attrs |-> {}]

AbsentCookie == [kind |-> "absent", val |-> {}, attrs |-> {}]

\* the cookies a client may send without holding the key: none, a signed
\* cookie altered afterwards, a string that was never signed; and cookies
\* made with the key: a valid one, and one whose signature verifies over a
\* payload the serializer cannot load or that is no mapping
RequestCookies ==
    {AbsentCookie,
     SignedCookie({<<"a", "str">>}),
     [kind |-> "tampered", val |-> {}, attrs |-> {}],
     [kind |-> "garbage", val |-> {}, attrs |-> {}],
     [kind |-> "badpayload", val |-> {}, attrs |-> {}]}

\* sessions.py:93-98: s.loads raises BadSignature when the signature does
\* not verify (no separator, wrong signature, bad timestamp); the except
\* clause names BadSignature only, so the BadPayload of a verified but
\* unloadable payload leaves open_session.
LoadsRaisesBadSignature(cookie) == cookie.kind \in {"tampered", "garbage"}

OpenSessionRaises(key, cookie) == key /\ cookie.kind = "badpayload"

\* an open_session that builds a session without looking for the key
open_session_without_key_check(key, cookie) ==
    IF cookie.kind = "absent" THEN NewSession({})
    ELSE IF LoadsRaisesBadSignature(cookie) THEN NewSession({})
    ELSE NewSession(SignerLoads(cookie.val))

\* open_session (sessions.py:84-98): None without a signing key; a fresh
\* empty session when the request carries no cookie or loads raised
\* BadSignature; the loaded content otherwise.
open_session(key, cookie) ==
    IF ~key THEN NoSession
    ELSE IF cookie.kind = "absent" THEN NewSession({})
    ELSE IF LoadsRaisesBadSignature(cookie) THEN NewSession({})
    ELSE NewSession(SignerLoads(cookie.val))

\* a save that never deletes the cookie
SaveExpiresNever(sess) == FALSE

\* sessions.py:105: the branch that deletes the cookie
SaveExpires(sess) == SessionEmpty(sess) /\ sess.modified

\* a save that writes the cookie whatever the flag says
SaveWritesAlways(sess) == TRUE

\* sessions.py:116: the branch that writes the signed cookie
SaveWrites(sess) == sess.modified

\* sessions.py:107-109: set_cookie(name, "", expires=0, domain, path)
ExpiredCookie ==
    [kind |-> "expired", val |-> {}, attrs |-> {"expires", "domain", "path"}]

\* sessions.py:117-126: set_cookie(name, signer.dumps(session), httponly,
\* domain, path, secure, samesite)
SessionCookie(sess) ==
    [kind |-> "signed", val |-> SignerDumps(sess.data),
     attrs |-> {"httponly", "domain", "path", "secure", "samesite"}]

\* save_session (sessions.py:100-126): the response with the cookie written
\* to it.
save_session(key, sess, resp) ==
    IF SaveExpires(sess)
    THEN [resp EXCEPT !.cookie = ExpiredCookie]
    ELSE IF ~key THEN resp
    ELSE IF SaveWrites(sess) THEN [resp EXCEPT !.cookie = SessionCookie(sess)]
    ELSE resp

\* --- the mutating dict methods of a session (sessions.py:11-32) ---
WithoutKey(d, k) == {p \in d : p[1] # k}

HasKey(d, k) == \E p \in d : p[1] = k

\* sessions.py:18-20
setitem(sess, k, v) ==
    [sess EXCEPT !.data = WithoutKey(@, k) \cup {<<k, v>>}, !.modified = TRUE]

\* sessions.py:22-24: super().__delitem__ raises KeyError for a missing key
\* before the flag is set
delitem(sess, k) ==
    IF HasKey(sess.data, k)
    THEN [sess EXCEPT !.data = WithoutKey(@, k), !.modified = TRUE]
    ELSE sess

\* sessions.py:26-28
clear(sess) == [sess EXCEPT !.data = {}, !.modified = TRUE]

\* sessions.py:30-32: update({k: v})
update(sess, k, v) ==
    [sess EXCEPT !.data = WithoutKey(@, k) \cup {<<k, v>>}, !.modified = TRUE]

\* dict.pop(k, None), not overridden by SessionMixin
pop(sess, k) == [sess EXCEPT !.data = WithoutKey(@, k)]

\* dict.popitem(), not overridden: removes the pair p
popitem(sess, p) == [sess EXCEPT !.data = @ \ {p}]

\* dict.setdefault(k, v), not overridden: inserts when the key is missing
setdefault(sess, k, v) ==
    IF HasKey(sess.data, k) THEN sess
    ELSE [sess EXCEPT !.data = @ \cup {<<k, v>>}]

\* what a hook or a handler does to request.session while it runs
SessionOps == {"none", "setitem", "clear"}

SessionEffect(sess, op) ==
    IF ~sess.present THEN sess
    ELSE CASE op = "setitem" -> setitem(sess, "a", "str")
           [] op = "clear" -> clear(sess)
           [] OTHER -> sess

(* ----------------------------- responses ------------------------------ *)
\* Text is a sequence of characters, bytes a sequence of byte groups: "a"
\* is an ASCII character and its byte, "U+FFFD" the replacement character,
\* "EFBFBD" its three-byte UTF-8 form, "FF" a byte that is not valid UTF-8.
MapSeq(q, Op(_)) == [n \in DOMAIN q |-> Op(q[n])]

EncodeChar(c) == IF c = "U+FFFD" THEN "EFBFBD" ELSE c

DecodeByte(b) == IF b \in {"FF", "EFBFBD"} THEN "U+FFFD" ELSE b

\* str.encode("utf-8")
Encode(text) == MapSeq(text, EncodeChar)

\* bytes.decode("utf-8", "replace") (dispatch.py:97, app.py:605)
Decode(bytes) == MapSeq(bytes, DecodeByte)

\* json.dumps(result) (dispatch.py:102): the text of the object
JsonDumps(obj) == <<"{">> \o obj \o <<"}">>

JsonHeaders == {<<"Content-Type", "application/json">>}

\* the status given in a `(body, status)` result
TupleStatus == 201

\* make_response(result): a bare string or bytes value is the body with
\* status 200, a (body, status) tuple carries its status, structured data is
\* written as JSON with the application/json content type.
make_response(kind, val) ==
    [status |-> IF kind = "tuple" THEN TupleStatus ELSE 200,
     body |-> CASE kind = "bytes" -> val
                [] kind = "dict" -> Encode(JsonDumps(val))
                [] OTHER -> Encode(val),
     headers |-> IF kind = "dict" THEN JsonHeaders ELSE {}]

\* app._make_response(result): the Response built from the value val of
\* type kind that step `by` of phase `origin` produced.
MakeResponseOf(origin, by, kind, val) ==
    [origin |-> origin, by |-> by, kind |-> kind, truthy |-> TRUE,
     tags |-> <<>>, cookie |-> NoCookie, val |-> val,
     status |-> make_response(kind, val).status,
     body |-> make_response(kind, val).body,
     headers |-> make_response(kind, val).headers]

MakeResponse(origin, by, kind) == MakeResponseOf(origin, by, kind, <<"a">>)

\* the value a middleware's process_request returned (used as it is)
MwResult(by, truthy) ==
    [MakeResponse("mw", by, "response") EXCEPT !.truthy = truthy]

\* app._response_to_rust_format (app.py:591-605)
response_to_rust_format(resp) ==
    [body |-> Decode(resp.body), status |-> resp.status,
     headers |-> resp.headers]

\* a fast path that hands a bytes result on as it is
FastBodyUndecoded(kind, val) ==
    IF kind = "dict" THEN JsonDumps(val) ELSE val

\* dispatch.py:94-105: the body the fast path emits
FastBody(kind, val) ==
    CASE kind = "bytes" -> Decode(val)
      [] kind = "dict" -> JsonDumps(val)
      [] OTHER -> val

\* dispatch.py:93-105: the tuple returned without building a Response
FastEmit(kind, val) ==
    [body |-> FastBody(kind, val), status |-> 200,
     headers |-> IF kind = "dict" THEN JsonHeaders ELSE {}]

\* a post-phase step (process_response of middleware i, after-request hook
\* i) returning a response derived from the one it was given
Tag(resp, phase, i) == [resp EXCEPT !.tags = Append(@, <<phase, i>>)]

\* result kinds a handler may return
ResultKinds == {"str", "dict", "tuple", "response"}

\* the kinds the direct-emit fast path recognises
FastKinds == {"str", "bytes", "dict"}

\* the wrapper returned: on the fast path the tuple it built itself, on the
\* other paths the conversion of the Response
Returned(resp, path) ==
    [kind |-> "return", resp |-> resp, path |-> path,
     triple |-> IF path = "fast" THEN FastEmit(resp.kind, resp.val)
                ELSE response_to_rust_format(resp)]

Raised(path) ==
    [kind |-> "raise", resp |-> NoResponse, path |-> path, triple |-> NoTriple]

(* ------------------- error handling (app.py:384-399, 571-589) --------- *)
\* exception classes, each with its base classes
Mro(cls) ==
    CASE cls = "ValidationError" -> {"ValidationError", "ValueError", "Exception"}
      [] cls = "ValueError" -> {"ValueError", "Exception"}
      [] cls = "HTTPException" -> {"HTTPException", "Exception"}
      [] OTHER -> {"Exception"}

\* `code` of an exception object without a `code` attribute
NoCode == 0

Exc(cls, code) == [cls |-> cls, code |-> code, msg |-> <<"m">>]

NoException == [cls |-> "none", code |-> NoCode, msg |-> <<>>]

\* params.py:12-18: a ValueError without a `code` attribute
ValidationError == Exc("ValidationError", NoCode)

\* the exceptions a handler or a hook may raise
Exceptions ==
    {Exc("Exception", NoCode), Exc("ValueError", NoCode), ValidationError,
     Exc("HTTPException", 404), Exc("HTTPException", 500)}

\* keys of error_handler_spec: an exception class or a status code
TypeKey(cls) == [is_type |-> TRUE, cls |-> cls, code |-> NoCode]

CodeKey(code) == [is_type |-> FALSE, cls |-> "int", code |-> code]

ErrorKeys ==
    {TypeKey("Exception"), TypeKey("ValueError"), CodeKey(404), CodeKey(500)}

\* app.py:575-581: the test of one table entry against the exception
KeyMatches(key, e) ==
    IF key.is_type THEN key.cls \in Mro(e.cls)
    ELSE e.code # NoCode /\ e.code = key.code

\* app.py:396: `self.error_handler_spec[code_or_exception] = f` -- a new key
\* is appended to the dict's order, an existing key keeps its place and gets
\* the new handler
errorhandler(table, key, h) ==
    IF \E n \in DOMAIN table : table[n].key = key
    THEN [n \in DOMAIN table |->
             IF table[n].key = key THEN [key |-> key, handler |-> h]
             ELSE table[n]]
    ELSE Append(table, [key |-> key, handler |-> h])

\* app.py:574-581: the first item of the dict that matches
FirstMatch(table, e) ==
    LET M == {n \in DOMAIN table : KeyMatches(table[n].key, e)} IN
    IF M = {} THEN 0 ELSE CHOOSE n \in M : \A m \in M : n <= m

\* the default status without the look at the exception's `code`
DefaultStatusAlways500(e) == 500

\* app.py:584-587
DefaultStatus(e) == IF e.code # NoCode THEN e.code ELSE 500

\* app.py:589: f"Internal Server Error: {str(exception)}"
DefaultBody(e) == <<"Internal Server Error: ">> \o e.msg

\* an exception handling that never looks at the table
handle_exception_without_table(table, e) ==
    [MakeResponse("error", 0, "str") EXCEPT
        !.val = DefaultBody(e),
        !.body = Encode(DefaultBody(e)),
        !.status = DefaultStatus(e)]

\* app._handle_exception (app.py:571-589): the response of the first
\* matching handler, else the default error response
handle_exception(table, e) ==
    IF FirstMatch(table, e) # 0
    THEN MakeResponse("errorhandler", table[FirstMatch(table, e)].handler,
                      "value")
    ELSE [MakeResponse("error", 0, "str") EXCEPT
             !.val = DefaultBody(e),
             !.body = Encode(DefaultBody(e)),
             !.status = DefaultStatus(e)]

EInit ==
    /\ err_regs = <<>>
    /\ err_exception = NoException
    /\ err_response = NoResponse

(* ------------------ path parameters (app.py:304-330) ------------------ *)
\* rule.strip("/").split("/") and path.strip("/").split("/") give the parts;
\* a part is a sequence of text pieces: the literal part "user" is
\* <<"user">>, the part "<int:id>" is <<"<", "int", ":", "id", ">">>, the
\* segment "42" is <<"4", "2">>.
Digits == {"2", "4"}

DigitVal(c) == IF c = "2" THEN 2 ELSE IF c = "4" THEN 4 ELSE 0

SegChars == Digits \cup {"a", "-"}

Segments == UNION {[1..n -> SegChars] : n \in 1..MaxSegLen}

\* the parameter parts routes are written with
DynParts ==
    {<<"<", "int", ":", "id", ">">>, <<"<", "id", ":", "int", ">">>,
     <<"<", "id", ">">>, <<"<", "str", ":", "id", ">">>}

Rules ==
    {<<d>> : d \in DynParts}
    \cup {<<<<"user">>, d>> : d \in DynParts}
    \cup {<<<<"user">>, d, <<"profile">>>> : d \in DynParts}

\* rp.startswith("<") and rp.endswith(">") (app.py:313)
IsDynamic(rp) == Head(rp) = "<" /\ rp[Len(rp)] = ">"

\* the paths the router hands to the route of a rule: the literal parts
\* as the rule has them, any segment where the rule has a parameter
MatchingPaths(rule) ==
    {path \in [DOMAIN rule -> Segments \cup {rule[k] : k \in DOMAIN rule}] :
        \A k \in DOMAIN rule :
            IF IsDynamic(rule[k]) THEN path[k] \in Segments
            ELSE path[k] = rule[k]}

\* rp[1:-1] (app.py:314)
Inner(rp) == SubSeq(rp, 2, Len(rp) - 1)

\* position of the first ":" of inner, 0 when there is none (app.py:315-316)
ColonAt(inner) ==
    IF \E k \in DOMAIN inner : inner[k] = ":"
    THEN CHOOSE k \in DOMAIN inner :
            inner[k] = ":" /\ \A j \in 1..(k - 1) : inner[j] # ":"
    ELSE 0

\* app.py:315-321: typ comes before the colon, name after it
PartType(rp) ==
    IF ColonAt(Inner(rp)) > 0
    THEN SubSeq(Inner(rp), 1, ColonAt(Inner(rp)) - 1)
    ELSE <<"str">>

PartName(rp) ==
    IF ColonAt(Inner(rp)) > 0
    THEN SubSeq(Inner(rp), ColonAt(Inner(rp)) + 1, Len(Inner(rp)))
    ELSE Inner(rp)

\* a parameter value: a Python int or a Python str
IntVal(n) == [type |-> "int", n |-> n, s |-> <<>>]

StrVal(seg) == [type |-> "str", n |-> 0, s |-> seg]

AllDigits(seg) == Len(seg) > 0 /\ \A k \in DOMAIN seg : seg[k] \in Digits

\* int(pp) raises ValueError unless pp is a run of digits, with or without
\* a sign in front (app.py:324-327)
IntRaises(seg) ==
    ~ \/ AllDigits(seg)
      \/ Len(seg) > 1 /\ seg[1] = "-" /\ AllDigits(Tail(seg))

RECURSIVE DecimalValue(_)
DecimalValue(seg) ==
    IF seg = <<>> THEN 0
    ELSE DecimalValue(SubSeq(seg, 1, Len(seg) - 1)) * 10
         + DigitVal(seg[Len(seg)])

\* int(pp) for a segment it accepts
int(seg) ==
    IF seg[1] = "-" THEN 0 - DecimalValue(Tail(seg)) ELSE DecimalValue(seg)

\* an extraction that leaves every segment the string it is
ConvertedAsText(typ, pp) == StrVal(pp)

\* app.py:322-327: val = pp, replaced by int(pp) for typ "int" unless int()
\* raised ValueError
Converted(typ, pp) ==
    IF typ = <<"int">> /\ ~IntRaises(pp) THEN IntVal(int(pp)) ELSE StrVal(pp)

\* kwargs[name] = val (app.py:329)
DictSet(d, name, val) == {kv \in d : kv[1] # name} \cup {<<name, val>>}

\* the loop over zip(rule_parts, path_parts) from position k on
RECURSIVE ExtractFrom(_, _, _, _)
ExtractFrom(rule, path, k, kwargs) ==
    IF k > Len(rule) THEN kwargs
    ELSE ExtractFrom(rule, path, k + 1,
            IF IsDynamic(rule[k])
            THEN DictSet(kwargs, PartName(rule[k]),
                         Converted(PartType(rule[k]), path[k]))
            ELSE kwargs)

\* app._extract_path_params(rule, path): the kwargs (args stays empty)
extract_path_params(rule, path) ==
    IF Len(rule) # Len(path) THEN {} ELSE ExtractFrom(rule, path, 1, {})

\* no route is being served
UIdle ==
    /\ par_rule = <<>>
    /\ par_path = <<>>
    /\ par_kwargs = {}
    /\ par_pc = "idle"

(* ------------------------ requests and handlers --------------------- *)
\* app._extract_path_params (app.py:304-330) and _extract_query_params for a
\* rule with an int-typed parameter: the segment converted by int(); the
\* segment kept as the string it is when int() raised ValueError
\* (app.py:326-327); a validate() call raising ValidationError
\* (params.py:104-136, 359-398)
ParamOutcomes == {"converted", "unconverted", "invalid"}

\* the results a handler may return: the type and the value
HandlerResults ==
    {[kind |-> k, val |-> <<"a">>] : k \in ResultKinds \cup {"bytes"}}
    \cup {[kind |-> "bytes", val |-> <<"FF">>]}

\* the exceptions a handler may raise
HandlerExceptions == {Exc("Exception", NoCode), Exc("HTTPException", 404)}

\* requests with or without a valid session cookie, handlers that leave the
\* session alone and get their parameters converted
PlainWorkload ==
    [cookies |-> {AbsentCookie, SignedCookie({<<"a", "str">>})},
     effects |-> {"none"},
     params |-> {"converted"},
     results |-> {r \in HandlerResults : r.val = <<"a">>},
     raises |-> {Exc("Exception", NoCode)}]

\* requests with a good or a bad session cookie, hooks and handlers that
\* use the session
SessionWorkload ==
    [PlainWorkload EXCEPT
        !.cookies = {c \in RequestCookies : c.kind # "garbage"},
        !.effects = SessionOps,
        !.results = {[kind |-> "str", val |-> <<"a">>]}]

\* every parameter outcome
ParamWorkload ==
    [PlainWorkload EXCEPT !.params = ParamOutcomes,
                          !.results = {[kind |-> "str", val |-> <<"a">>]}]

\* every handler result and handler exception
ResultWorkload ==
    [PlainWorkload EXCEPT !.results = HandlerResults,
                          !.raises = HandlerExceptions]

\* handlers that raise, in an application with sessions and with registered
\* error handlers; requests without a cookie
ErrorWorkload ==
    [PlainWorkload EXCEPT !.cookies = {AbsentCookie},
                          !.results = {[kind |-> "str", val |-> <<"a">>]},
                          !.raises = HandlerExceptions]

\* the error handler tables of the applications with that workload
ErrorTables == {errorhandler(<<>>, CodeKey(404), 1)}

Workloads == {SessionWorkload, ParamWorkload, ResultWorkload, ErrorWorkload}

(* ------------------------------- Init --------------------------------- *)
\* every route of the application has a coroutine function as its handler
\* (b = TRUE) or a plain function (b = FALSE)
AllRoutes(b) == [f \in Frames |-> b]

DInit ==
    /\ before_request_funcs \in 0..MaxBefore
    /\ middlewares \in 0..MaxMw
    /\ after_request_funcs \in 0..MaxAfter
    /\ teardown_request_funcs \in 0..MaxTeardown
    /\ secret_key \in BOOLEAN
    /\ is_async \in [Frames -> BOOLEAN]
    /\ workload \in Workloads \cup {PlainWorkload}
    /\ error_handler_spec \in {<<>>} \cup ErrorTables
    /\ (error_handler_spec # <<>>) = (workload = ErrorWorkload)
    /\ slot = [f \in Frames |-> Empty]
    /\ pc = [f \in Frames |-> "idle"]
    /\ idx = [f \in Frames |-> 0]
    /\ request = [f \in Frames |-> Empty]
    /\ token = [f \in Frames |-> NoToken]
    /\ session = [f \in Frames |-> NoSession]
    /\ response = [f \in Frames |-> NoResponse]
    /\ outcome = [f \in Frames |-> NoOutcome]
    /\ exc = [f \in Frames |-> NoException]
    /\ log = [f \in Frames |-> <<>>]

(* --------------------------- control flow ----------------------------- *)
\* the finally block: teardown loop, then the context reset
PcFinally == IF teardown_request_funcs > 0 THEN "teardown" ELSE "release"

\* after the post-phase middleware: after-request hooks, then save/convert
PcAfterMwResp == IF after_request_funcs > 0 THEN "after" ELSE "save"

\* after the handler result became a response (dispatch.py:113-115)
PcAfterHandler == IF middlewares > 0 THEN "mwresp" ELSE PcAfterMwResp

\* after the before-request loop (dispatch.py:54, 78)
PcAfterBefore == IF middlewares > 0 THEN "mwreq" ELSE "handler"

\* after the session block (dispatch.py:42)
PcAfterSession == IF before_request_funcs > 0 THEN "before" ELSE PcAfterBefore

\* after _request_ctx.set (dispatch.py:37)
PcAfterAcquire == IF secret_key THEN "session" ELSE PcAfterSession

Logged(f, evs) == [log EXCEPT ![f] = @ \o evs]

(* ------------------------------ actions ------------------------------- *)
\* The engine hands a request to the wrapper on frame f.  The conversion
\* Request._from_rust_request may fail before `token` is assigned.
Dispatch(f) ==
    /\ pc[f] = "idle"
    /\ served[f] < MaxRequests
    /\ served' = [served EXCEPT ![f] = @ + 1]
    /\ \E conv \in BOOLEAN :
         IF conv
         THEN LET req == <<f, served[f] + 1>> IN
              /\ request' = [request EXCEPT ![f] = req]
              /\ token' = [token EXCEPT ![f] = CtxToken(slot, f)]
              /\ slot' = CtxSet(slot, f, req)
              /\ log' = Logged(f, <<Event("acquire", 0, req, "ok", NoResponse, NoResponse)>>)
              /\ pc' = [pc EXCEPT ![f] = PcAfterAcquire]
         ELSE /\ pc' = [pc EXCEPT ![f] = "except"]
              /\ UNCHANGED <<request, token, slot, log>>
    /\ idx' = [idx EXCEPT ![f] = 1]
    /\ exc' = [exc EXCEPT ![f] = IF pc'[f] = "except"
                                 THEN Exc("Exception", NoCode) ELSE @]
    /\ UNCHANGED <<wvars, svars, evars, restvars, cfgvars, session, response, outcome>>

\* dispatch.py:36-39
OpenSession(f) ==
    /\ pc[f] = "session"
    /\ \E cookie \in workload.cookies :
         LET carried == [NoResponse EXCEPT !.cookie = cookie] IN
         IF OpenSessionRaises(secret_key, cookie)
         THEN /\ log' = Logged(f, <<Event("open_session", 0, slot[f], "raise",
                                          carried, NoResponse)>>)
              /\ exc' = [exc EXCEPT ![f] = Exc("BadPayload", NoCode)]
              /\ pc' = [pc EXCEPT ![f] = "except"]
              /\ UNCHANGED session
         ELSE /\ session' = [session EXCEPT ![f] =
                                open_session(secret_key, cookie)]
              /\ log' = Logged(f, <<Event("open_session", 0, slot[f], "ok",
                                          carried, NoResponse)>>)
              /\ pc' = [pc EXCEPT ![f] = PcAfterSession]
              /\ UNCHANGED exc
    /\ idx' = [idx EXCEPT ![f] = 1]
    /\ UNCHANGED <<wvars, svars, evars, restvars, cfgvars, slot, served, request, token, response, outcome>>

\* dispatch.py:42-50: one iteration of the before-request loop
BeforeStep(f) ==
    /\ pc[f] = "before"
    /\ \E op \in workload.effects :
         session' = [session EXCEPT ![f] = SessionEffect(@, op)]
    /\ LET i == idx[f] IN
       \E out \in {"none", "value", "raise"} :
         LET called == Event("before", i, slot[f], out, NoResponse,
                             IF out = "value"
                             THEN MakeResponse("before", i, "value")
                             ELSE NoResponse) IN
         CASE out = "none" ->
                /\ log' = Logged(f, <<called>>)
                /\ IF i < before_request_funcs
                   THEN /\ idx' = [idx EXCEPT ![f] = i + 1]
                        /\ pc' = pc
                   ELSE /\ idx' = [idx EXCEPT ![f] = 1]
                        /\ pc' = [pc EXCEPT ![f] = PcAfterBefore]
                /\ UNCHANGED <<slot, token, response, outcome>>
           [] out = "value" ->
                LET made == MakeResponse("before", i, "value")
                    saved == IF SessionTruthy(session'[f])
                             THEN save_session(secret_key, session'[f], made)
                             ELSE made
                    savedEv == IF SessionTruthy(session'[f])
                               THEN <<Event("save_session", 0, slot[f], "ok",
                                            made, saved)>>
                               ELSE <<>>
                    sl == CtxReset(slot, f, token[f]) IN
                /\ response' = [response EXCEPT ![f] = saved]
                /\ slot' = sl
                /\ token' = [token EXCEPT ![f].used = TRUE]
                /\ log' = Logged(f, <<called>> \o savedEv
                                    \o <<Event("release", 0, sl[f], "ok",
                                                NoResponse, NoResponse),
                                          Event("return", 0, sl[f], "before",
                                                NoResponse, saved)>>)
                /\ outcome' = [outcome EXCEPT ![f] = Returned(saved, "before")]
                /\ idx' = [idx EXCEPT ![f] = 1]
                /\ pc' = [pc EXCEPT ![f] = PcFinally]
           [] out = "raise" ->
                /\ log' = Logged(f, <<called>>)
                /\ idx' = [idx EXCEPT ![f] = 1]
                /\ pc' = [pc EXCEPT ![f] = "except"]
                /\ UNCHANGED <<slot, token, response, outcome>>
    /\ exc' = [exc EXCEPT ![f] = IF pc'[f] = "except"
                                 THEN Exc("Exception", NoCode) ELSE @]
    /\ UNCHANGED <<wvars, svars, evars, restvars, cfgvars, served, request>>

\* middleware.py:55: MiddlewareManager.process_request stops at the first
\* result that is not None
ManagerStops(out) == out # "none"

\* dispatch.py:56: `if mw_response:` -- the wrapper takes the short-circuit
\* branch when the manager's result is truthy
WrapperShortCircuits(mw_response) == mw_response.truthy

\* dispatch.py:55-57 with middleware.py:51-57: one iteration of the
\* process_request loop; the wrapper's test follows the manager's return
MwRequestStep(f) ==
    /\ pc[f] = "mwreq"
    /\ LET j == idx[f] IN
       \E out \in {"none", "truthy", "falsy", "raise"} :
         /\ log' = Logged(f, <<Event("process_request", j, slot[f], out,
                                     NoResponse,
                                     IF out \in {"truthy", "falsy"}
                                     THEN MwResult(j, out = "truthy")
                                     ELSE NoResponse)>>)
         /\ CASE out = "raise" ->
                  /\ pc' = [pc EXCEPT ![f] = "except"]
                  /\ idx' = [idx EXCEPT ![f] = 1]
                  /\ UNCHANGED response
              [] out # "raise" /\ ~ManagerStops(out) /\ j < middlewares ->
                  /\ idx' = [idx EXCEPT ![f] = j + 1]
                  /\ UNCHANGED <<pc, response>>
              [] out # "raise" /\ ~ManagerStops(out) /\ j >= middlewares ->
                  /\ pc' = [pc EXCEPT ![f] = "handler"]
                  /\ idx' = [idx EXCEPT ![f] = 1]
                  /\ UNCHANGED response
              [] out # "raise" /\ ManagerStops(out) ->
                  LET mw_response == MwResult(j, out = "truthy") IN
                  IF WrapperShortCircuits(mw_response)
                  THEN /\ response' = [response EXCEPT ![f] = mw_response]
                       /\ pc' = [pc EXCEPT ![f] = "mwresp"]
                       /\ idx' = [idx EXCEPT ![f] = 1]
                  ELSE /\ pc' = [pc EXCEPT ![f] = "handler"]
                       /\ idx' = [idx EXCEPT ![f] = 1]
                       /\ UNCHANGED response
    /\ exc' = [exc EXCEPT ![f] = IF pc'[f] = "except"
                                 THEN Exc("Exception", NoCode) ELSE @]
    /\ UNCHANGED <<wvars, svars, evars, restvars, cfgvars, slot, served, request, token, session, outcome>>

\* a fast path taken whatever after-request hooks are registered
FastPathIgnoringHooks(f, kind) ==
    /\ middlewares = 0
    /\ ~session[f].present
    /\ kind \in FastKinds

\* dispatch.py:93-105: the direct-emit fast path applies
FastPath(f, kind) ==
    /\ middlewares = 0
    /\ ~session[f].present
    /\ after_request_funcs = 0
    /\ kind \in FastKinds

\* dispatch.py:59-111: the parameters are extracted, the route handler is
\* invoked and its result turned into a response (or emitted directly on
\* the fast path)
HandlerReturns(f) ==
    /\ idx' = [idx EXCEPT ![f] = 1]
    /\ \E p \in workload.params :
         LET extracted == Event("extract_params", 0, slot[f], p,
                                NoResponse, NoResponse) IN
         IF p = "invalid"
         THEN /\ pc' = [pc EXCEPT ![f] = "except"]
              /\ exc' = [exc EXCEPT ![f] = ValidationError]
              /\ log' = Logged(f, <<extracted>>)
              /\ UNCHANGED <<response, outcome, session>>
         ELSE
         /\ \E op \in workload.effects :
              session' = [session EXCEPT ![f] = SessionEffect(@, op)]
         /\ \/ \E e \in workload.raises :
                 /\ pc' = [pc EXCEPT ![f] = "except"]
                 /\ exc' = [exc EXCEPT ![f] = e]
                 /\ log' = Logged(f, <<extracted,
                                       Event("handler", 0, slot[f], "raise",
                                             NoResponse, NoResponse)>>)
                 /\ UNCHANGED <<response, outcome>>
            \/ \E r \in workload.results :
                 LET made == MakeResponseOf("handler", 0, r.kind, r.val)
                     called == Event("handler", 0, slot[f], r.kind,
                                     NoResponse, made) IN
                 /\ UNCHANGED exc
                 /\ IF FastPath(f, r.kind)
                    THEN /\ outcome' = [outcome EXCEPT ![f] =
                                           Returned(made, "fast")]
                         /\ log' = Logged(f, <<extracted, called,
                                               Event("return", 0, slot[f], "fast",
                                                     NoResponse, made)>>)
                         /\ pc' = [pc EXCEPT ![f] = PcFinally]
                         /\ UNCHANGED response
                    ELSE /\ response' = [response EXCEPT ![f] = made]
                         /\ log' = Logged(f, <<extracted, called>>)
                         /\ pc' = [pc EXCEPT ![f] = PcAfterHandler]
                         /\ UNCHANGED outcome
    /\ UNCHANGED <<wvars, svars, evars, restvars, cfgvars, slot, served, request, token>>

\* create_sync_wrapper: `result = handler(**kwargs)` runs to completion on
\* the calling thread
HandlerStep(f) ==
    /\ pc[f] = "handler"
    /\ IF is_async[f]
       THEN /\ pc' = [pc EXCEPT ![f] = "await"]
            /\ UNCHANGED <<wvars, svars, evars, restvars, cfgvars, slot, served, idx, request, token, session,
                           response, outcome, exc, log>>
       ELSE HandlerReturns(f)

\* an await that loses the handler's result: the wrapper goes on as if the
\* handler had raised
AwaitHandlerLosingResult(f) ==
    /\ pc[f] = "await"
    /\ pc' = [pc EXCEPT ![f] = "except"]
    /\ exc' = [exc EXCEPT ![f] = Exc("Exception", NoCode)]
    /\ UNCHANGED <<wvars, svars, evars, restvars, cfgvars, slot, served, idx,
                   request, token, session, response, outcome, log>>

\* create_async_wrapper: `result = await handler(**kwargs)`; the coroutine
\* is suspended and resumed by the scheduler
AwaitHandler(f) ==
    /\ pc[f] = "await"
    /\ HandlerReturns(f)

\* the response phase walking the list forwards
ResponseOrderForward(n, k) == k

\* middleware.py:61: `reversed(self._middleware)` -- the k-th middleware
\* visited in the response phase, of n registered
ResponseOrder(n, k) == n - k + 1

\* middleware.py:59-63 (called from dispatch.py:114-115): the k-th iteration
\* of `for md in reversed(self._middleware)`
MwResponseStep(f) ==
    /\ pc[f] = "mwresp"
    /\ LET k == idx[f]
           j == ResponseOrder(middlewares, k) IN
       \E out \in {"ok", "raise"} :
            IF out = "raise"
            THEN /\ log' = Logged(f, <<Event("process_response", j, slot[f], out,
                                             response[f], NoResponse)>>)
                 /\ pc' = [pc EXCEPT ![f] = "except"]
                 /\ idx' = [idx EXCEPT ![f] = 1]
                 /\ UNCHANGED response
            ELSE /\ log' = Logged(f, <<Event("process_response", j, slot[f], out,
                                             response[f], Tag(response[f], "mw", j))>>)
                 /\ response' = [response EXCEPT ![f] = Tag(@, "mw", j)]
                 /\ IF k < middlewares
                    THEN /\ idx' = [idx EXCEPT ![f] = k + 1]
                         /\ pc' = pc
                    ELSE /\ idx' = [idx EXCEPT ![f] = 1]
                         /\ pc' = [pc EXCEPT ![f] = PcAfterMwResp]
    /\ exc' = [exc EXCEPT ![f] = IF pc'[f] = "except"
                                 THEN Exc("Exception", NoCode) ELSE @]
    /\ UNCHANGED <<wvars, svars, evars, restvars, cfgvars, slot, served, request, token, session, outcome>>

\* dispatch.py:118-120: `response = after_func(response) or response`
AfterStep(f) ==
    /\ pc[f] = "after"
    /\ LET i == idx[f] IN
       \E out \in {"none", "new", "raise"} :
         /\ log' = Logged(f, <<Event("after", i, slot[f], out, response[f],
                                     IF out = "new"
                                     THEN Tag(response[f], "after", i)
                                     ELSE NoResponse)>>)
         /\ IF out = "raise"
            THEN /\ pc' = [pc EXCEPT ![f] = "except"]
                 /\ idx' = [idx EXCEPT ![f] = 1]
                 /\ UNCHANGED response
            ELSE /\ response' = [response EXCEPT ![f] =
                                   IF out = "new" THEN Tag(@, "after", i) ELSE @]
                 /\ IF i < after_request_funcs
                    THEN /\ idx' = [idx EXCEPT ![f] = i + 1]
                         /\ pc' = pc
                    ELSE /\ idx' = [idx EXCEPT ![f] = 1]
                         /\ pc' = [pc EXCEPT ![f] = "save"]
    /\ exc' = [exc EXCEPT ![f] = IF pc'[f] = "except"
                                 THEN Exc("Exception", NoCode) ELSE @]
    /\ UNCHANGED <<wvars, svars, evars, restvars, cfgvars, slot, served, request, token, session, outcome>>

\* dispatch.py:122-127: save the session, convert and return
SaveAndReturn(f) ==
    /\ pc[f] = "save"
    /\ LET saved == IF session[f].present
                    THEN save_session(secret_key, session[f], response[f])
                    ELSE response[f]
           savedEv == IF session[f].present
                      THEN <<Event("save_session", 0, slot[f], "ok",
                                   response[f], saved)>>
                      ELSE <<>> IN
       /\ response' = [response EXCEPT ![f] = saved]
       /\ outcome' = [outcome EXCEPT ![f] = Returned(saved, "full")]
       /\ log' = Logged(f, savedEv \o <<Event("return", 0, slot[f], "full",
                                              NoResponse, saved)>>)
    /\ idx' = [idx EXCEPT ![f] = 1]
    /\ pc' = [pc EXCEPT ![f] = PcFinally]
    /\ UNCHANGED <<wvars, svars, evars, restvars, cfgvars, slot, served, request, token, session, exc>>

\* dispatch.py:129-131: the except clause
HandleException(f) ==
    /\ pc[f] = "except"
    /\ LET error_response == handle_exception(error_handler_spec, exc[f]) IN
       /\ outcome' = [outcome EXCEPT ![f] = Returned(error_response, "except")]
       /\ log' = Logged(f, <<Event("handle_exception", 0, slot[f], "ok",
                                   NoResponse, error_response),
                             Event("return", 0, slot[f], "except",
                                   NoResponse, error_response)>>)
    /\ idx' = [idx EXCEPT ![f] = 1]
    /\ pc' = [pc EXCEPT ![f] = PcFinally]
    /\ UNCHANGED <<wvars, svars, evars, restvars, cfgvars, slot, served, request, token, session, response,
                   exc>>

\* a teardown failure escaping the wrapper
TeardownOutcomePropagates(out, oc) ==
    IF out = "raise" THEN Raised("teardown") ELSE oc

\* dispatch.py:136-139: what the wrapper will return after teardown callback
\* with result `out` ran inside try/except
TeardownOutcome(out, oc) == oc

\* dispatch.py:134-139: one iteration of the teardown loop
TeardownStep(f) ==
    /\ pc[f] = "teardown"
    /\ LET k == idx[f] IN
       /\ \E out \in {"ok", "raise"} :
            /\ log' = Logged(f, <<Event("teardown", k, slot[f], out,
                                        NoResponse, NoResponse)>>)
            /\ outcome' = [outcome EXCEPT ![f] = TeardownOutcome(out, @)]
       /\ IF k < teardown_request_funcs
          THEN /\ idx' = [idx EXCEPT ![f] = k + 1]
               /\ pc' = pc
          ELSE /\ idx' = [idx EXCEPT ![f] = 1]
               /\ pc' = [pc EXCEPT ![f] = "release"]
    /\ UNCHANGED <<wvars, svars, evars, restvars, cfgvars, slot, served, request, token, session, response,
                   exc>>

\* a finally block that ends without the context reset
ReleaseWithoutReset(f) ==
    /\ pc[f] = "release"
    /\ pc' = [pc EXCEPT ![f] = "done"]
    /\ log' = Logged(f, <<Event("release", 0, slot[f], "ok",
                                NoResponse, NoResponse)>>)
    /\ UNCHANGED <<wvars, svars, evars, restvars, cfgvars, slot, served, idx,
                   request, token, session, response, outcome, exc>>

\* dispatch.py:141-145: the context reset that ends the finally block
Release(f) ==
    /\ pc[f] = "release"
    /\ IF token[f].bound
       THEN IF CtxResetRaises(token[f])
            THEN /\ outcome' = [outcome EXCEPT ![f] = Raised("release")]
                 /\ log' = Logged(f, <<Event("release", 0, slot[f], "raise",
                                             NoResponse, NoResponse)>>)
                 /\ UNCHANGED <<slot, token>>
            ELSE LET sl == CtxReset(slot, f, token[f]) IN
                 /\ slot' = sl
                 /\ token' = [token EXCEPT ![f].used = TRUE]
                 /\ log' = Logged(f, <<Event("release", 0, sl[f], "ok",
                                             NoResponse, NoResponse)>>)
                 /\ UNCHANGED outcome
       ELSE /\ slot' = CtxSet(slot, f, Empty)
            /\ log' = Logged(f, <<Event("clear", 0, Empty, "ok",
                                        NoResponse, NoResponse)>>)
            /\ UNCHANGED <<token, outcome>>
    /\ pc' = [pc EXCEPT ![f] = "done"]
    /\ UNCHANGED <<wvars, svars, evars, restvars, cfgvars, served, idx, request, session, response,
                   exc>>

\* the wrapper call is over: the engine takes the outcome and the frame's
\* locals die
Finish(f) ==
    /\ pc[f] = "done"
    /\ pc' = [pc EXCEPT ![f] = "idle"]
    /\ idx' = [idx EXCEPT ![f] = 0]
    /\ request' = [request EXCEPT ![f] = Empty]
    /\ token' = [token EXCEPT ![f] = NoToken]
    /\ session' = [session EXCEPT ![f] = NoSession]
    /\ response' = [response EXCEPT ![f] = NoResponse]
    /\ outcome' = [outcome EXCEPT ![f] = NoOutcome]
    /\ exc' = [exc EXCEPT ![f] = NoException]
    /\ log' = [log EXCEPT ![f] = <<>>]
    /\ UNCHANGED <<wvars, svars, evars, restvars, cfgvars, slot, served>>

(* ===================== WebSocket bridge (websocket.py) ================= *)
ConnIds == {1, 2}

\* "main": the loop running on the thread that delivered on_connect;
\* "background": self._background_loop
Loops == {"main", "background"}

Payload(kind, n) == [kind |-> kind, n |-> n]

\* the None that _receive_close puts on the queue
EOS == Payload("eos", 0)

Callback(fn, id, msg) == [fn |-> fn, id |-> id, msg |-> msg]

\* an exception that left an engine callback
Escaped(cb, c, cause) == [cb |-> cb, id |-> c, cause |-> cause]

\* how the handoff of the handler coroutine to a loop ends: the loop takes
\* it, or create_task / run_coroutine_threadsafe raises (an exception other
\* than the RuntimeError of a missing running loop)
Handoffs == {"ok", "fails"}

\* how a handler coroutine ends
Endings == {"return", "raise"}

WInit ==
    /\ connections = {}
    /\ tasks = [c \in ConnIds |-> "none"]
    /\ background_loop = FALSE
    /\ messages = [c \in ConnIds |-> <<>>]
    /\ closed = [c \in ConnIds |-> FALSE]
    /\ ready = [l \in Loops |-> <<>>]
    /\ owner = [c \in ConnIds |-> "none"]
    /\ hstate = [c \in ConnIds |-> "none"]
    /\ cstate = [c \in ConnIds |-> "new"]
    /\ delivered = [c \in ConnIds |-> <<>>]
    /\ observed = [c \in ConnIds |-> <<>>]
    /\ scheduled = [c \in ConnIds |-> 0]
    /\ escaped = {}
    /\ parked = {}

\* a put that reaches the queue of every connection
receive_message_broadcast(q, c, msg) == [d \in ConnIds |-> Append(q[d], msg)]

\* WebSocket._receive_message: put_nowait on the queue
receive_message(q, c, msg) == [q EXCEPT ![c] = Append(@, msg)]

\* loop.call_soon_threadsafe(ws._receive_message, message)
call_soon_threadsafe(rd, l, cb) == [rd EXCEPT ![l] = Append(@, cb)]

\* a cleanup that empties the whole registry
cleanup_all_tasks(t, c) == [d \in ConnIds |-> "none"]

\* WebSocketHandler._cleanup_task
cleanup_task(t, c) == [t EXCEPT ![c] = "none"]

\* a handoff that gives the coroutine to the loop twice
run_handler_twice(sched, c) == [sched EXCEPT ![c] = @ + 2]

\* loop.create_task(self.handler_func(ws)) (websocket.py:152) or
\* asyncio.run_coroutine_threadsafe(self.handler_func(ws), loop) (174): one
\* more execution of the handler coroutine scheduled for connection c
run_handler(sched, c) == [sched EXCEPT ![c] = @ + 1]

\* the loop has nothing to run and waits in its selector: no callback is
\* ready, no coroutine of the loop runs or is about to take an item
LoopIdle(l) ==
    /\ ready[l] = <<>>
    /\ \A d \in ConnIds :
          owner[d] = l
          => /\ hstate[d] # "running"
             /\ ~(hstate[d] = "waiting" /\ messages[d] # <<>> /\ d \notin parked)

\* put_nowait wakes the waiting getter with the loop's call_soon, which
\* does not wake a loop that waits in its selector on another thread: a
\* put made on thread `thread` for a coroutine of another loop leaves the
\* getter of c where it is until something else wakes that loop.
PutParks(c, thread) ==
    /\ owner[c] \in Loops
    /\ owner[c] # thread
    /\ hstate[c] = "waiting"
    /\ messages[c] = <<>>
    /\ LoopIdle(owner[c])

\* ws._receive_message / ws._receive_close called on the thread that
\* delivers the engine callback (websocket.py:234, 248, 254): the thread
\* of the "main" loop for a handler running there, a thread of the engine
\* otherwise (the background loop runs on its own thread, 161-170)
DirectPutParks(c) ==
    PutParks(c, IF owner[c] = "main" THEN "main" ELSE "engine")

\* the coroutines of loop l, once the loop has been woken
Woken(l) == parked \ {d \in ConnIds : owner[d] = l}

\* websocket.py:125-198.  has_loop: asyncio.get_running_loop() succeeds on
\* the delivering thread.
on_connect(c, has_loop, handoff) ==
    /\ cstate[c] = "new"
    /\ cstate' = [cstate EXCEPT ![c] = "open"]
    /\ connections' = connections \cup {c}
    /\ background_loop' = (background_loop \/ ~has_loop)
    /\ IF handoff = "ok"
       THEN /\ tasks' = [tasks EXCEPT ![c] = IF has_loop THEN "task" ELSE "future"]
            /\ owner' = [owner EXCEPT ![c] = IF has_loop THEN "main" ELSE "background"]
            /\ hstate' = [hstate EXCEPT ![c] = "running"]
            /\ scheduled' = run_handler(scheduled, c)
            /\ parked' = IF has_loop THEN parked ELSE Woken("background")
            /\ UNCHANGED escaped
       ELSE /\ escaped' = escaped \cup {Escaped("on_connect", c, "handoff")}
            /\ UNCHANGED <<tasks, owner, hstate, scheduled, parked>>
    /\ UNCHANGED <<dvars, svars, evars, restvars, messages, closed, ready, delivered, observed>>

\* websocket.py:207-234: where on_message puts the payload.  "direct" is the
\* call of ws._receive_message on the delivering thread.
MessageRoute(c) ==
    IF background_loop THEN "background"
    ELSE IF tasks[c] = "task" THEN owner[c]
    ELSE "direct"

\* websocket.py:200-236
on_message(c) ==
    /\ cstate[c] # "new"
    /\ Len(delivered[c]) < MaxMsgs
    /\ LET msg == Payload("text", Len(delivered[c]) + 1) IN
       /\ delivered' = [delivered EXCEPT ![c] = Append(@, msg)]
       /\ IF c \in connections
          THEN IF MessageRoute(c) = "direct"
               THEN /\ messages' = receive_message(messages, c, msg)
                    /\ parked' = IF DirectPutParks(c) THEN parked \cup {c}
                                 ELSE parked
                    /\ UNCHANGED ready
               ELSE /\ ready' = call_soon_threadsafe(ready, MessageRoute(c),
                                                     Callback("receive", c, msg))
                    /\ UNCHANGED <<messages, parked>>
          ELSE UNCHANGED <<messages, ready, parked>>
    /\ UNCHANGED <<dvars, svars, evars, restvars, connections, tasks, background_loop, closed, owner, hstate,
                   cstate, observed, scheduled, escaped>>

\* websocket.py:238-248
on_binary(c) ==
    /\ cstate[c] # "new"
    /\ Len(delivered[c]) < MaxMsgs
    /\ LET msg == Payload("binary", Len(delivered[c]) + 1) IN
       /\ delivered' = [delivered EXCEPT ![c] = Append(@, msg)]
       /\ IF c \in connections
          THEN /\ messages' = receive_message(messages, c, msg)
               /\ parked' = IF DirectPutParks(c) THEN parked \cup {c}
                            ELSE parked
          ELSE UNCHANGED <<messages, parked>>
    /\ UNCHANGED <<dvars, svars, evars, restvars, connections, tasks, background_loop, closed, ready, owner,
                   hstate, cstate, observed, scheduled, escaped>>

\* websocket.py:250-257 with _receive_close (78-81)
on_disconnect(c) ==
    /\ cstate[c] = "open"
    /\ cstate' = [cstate EXCEPT ![c] = "gone"]
    /\ delivered' = [delivered EXCEPT ![c] = Append(@, EOS)]
    /\ IF c \in connections
       THEN /\ closed' = [closed EXCEPT ![c] = TRUE]
            /\ messages' = receive_message(messages, c, EOS)
            /\ connections' = connections \ {c}
            /\ parked' = IF DirectPutParks(c) THEN parked \cup {c} ELSE parked
       ELSE UNCHANGED <<closed, messages, connections, parked>>
    /\ tasks' = cleanup_task(tasks, c)
    /\ UNCHANGED <<dvars, svars, evars, restvars, background_loop, ready, owner, hstate, observed,
                   scheduled, escaped>>

\* an event loop, woken by call_soon_threadsafe, runs the callback at the
\* head of its ready queue: ws._receive_message, or _task_done_callback
\* (websocket.py:184-194), which takes the task's result, logs the
\* exception of a failed task and cleans up
LoopRun(l) ==
    /\ ready[l] # <<>>
    /\ LET cb == Head(ready[l]) IN
       /\ ready' = [ready EXCEPT ![l] = Tail(@)]
       /\ IF cb.fn = "receive"
          THEN /\ messages' = receive_message(messages, cb.id, cb.msg)
               /\ UNCHANGED tasks
          ELSE /\ tasks' = cleanup_task(tasks, cb.id)
               /\ UNCHANGED messages
    /\ parked' = IF Head(ready[l]).fn = "receive"
                     /\ PutParks(Head(ready[l]).id, l)
                  THEN Woken(l) \cup {Head(ready[l]).id}
                  ELSE Woken(l)
    /\ UNCHANGED <<dvars, svars, evars, restvars, connections, background_loop, closed, owner, hstate, cstate,
                   delivered, observed, scheduled, escaped>>

\* websocket.py:90-91: receive() returns None without waiting
ReceiveReturnsNone(c) == closed[c] /\ messages[c] = <<>>

\* websocket.py:83-93: the handler coroutine calls ws.receive()
HandlerReceive(c) ==
    /\ hstate[c] = "running"
    /\ Len(observed[c]) < MaxReceives
    /\ IF ReceiveReturnsNone(c)
       THEN /\ observed' = [observed EXCEPT ![c] = Append(@, EOS)]
            /\ UNCHANGED hstate
       ELSE /\ hstate' = [hstate EXCEPT ![c] = "waiting"]
            /\ UNCHANGED observed
    /\ UNCHANGED <<dvars, svars, evars, restvars, connections, tasks, background_loop, messages, closed, ready,
                   owner, cstate, delivered, scheduled, escaped, parked>>

\* websocket.py:92-93: `await self._messages.get()` completes, once the
\* loop knows of the item
HandlerResume(c) ==
    /\ hstate[c] = "waiting"
    /\ messages[c] # <<>>
    /\ c \notin parked
    /\ observed' = [observed EXCEPT ![c] = Append(@, Head(messages[c]))]
    /\ messages' = [messages EXCEPT ![c] = Tail(@)]
    /\ hstate' = [hstate EXCEPT ![c] = "running"]
    /\ UNCHANGED <<dvars, svars, evars, restvars, connections, tasks, background_loop, closed, ready, owner,
                   cstate, delivered, scheduled, escaped, parked>>

\* the handler coroutine ends, by returning or by raising; websocket.py:
\* 181-198: only a task created on the caller's loop got
\* _task_done_callback, which the loop runs later; on the background path
\* on_connect returned at line 178 and the future keeps result or exception
HandlerFinish(c, how) ==
    /\ hstate[c] = "running"
    /\ hstate' = [hstate EXCEPT ![c] = IF how = "raise" THEN "failed" ELSE "done"]
    /\ IF owner[c] = "main"
       THEN ready' = [ready EXCEPT !["main"] = Append(@, Callback("done", c, EOS))]
       ELSE UNCHANGED ready
    /\ UNCHANGED <<dvars, svars, evars, restvars, connections, tasks, background_loop, messages, closed, owner,
                   cstate, delivered, observed, scheduled, escaped, parked>>

\* the bridge with handoffs that succeed and handlers that return
WsNext ==
    \/ \E c \in ConnIds, has_loop \in BOOLEAN : on_connect(c, has_loop, "ok")
    \/ \E c \in ConnIds : on_message(c)
    \/ \E c \in ConnIds : on_binary(c)
    \/ \E c \in ConnIds : on_disconnect(c)
    \/ \E l \in Loops : LoopRun(l)
    \/ \E c \in ConnIds : HandlerReceive(c)
    \/ \E c \in ConnIds : HandlerResume(c)
    \/ \E c \in ConnIds : HandlerFinish(c, "return")

\* the life of the connections: handoffs that may fail, handlers that may
\* raise; connection 1 gets text messages, connection 2 binary ones
LifeNext ==
    \/ \E c \in ConnIds, has_loop \in BOOLEAN, handoff \in Handoffs :
          on_connect(c, has_loop, handoff)
    \/ \E c \in {1} : on_message(c)
    \/ \E c \in {2} : on_binary(c)
    \/ \E c \in ConnIds : on_disconnect(c)
    \/ \E l \in Loops : LoopRun(l)
    \/ \E c \in ConnIds : HandlerReceive(c)
    \/ \E c \in ConnIds : HandlerResume(c)
    \/ \E c \in ConnIds, how \in Endings : HandlerFinish(c, how)

\* one connection, from connect to the end of its handler
WakeNext ==
    \/ \E has_loop \in BOOLEAN : on_connect(1, has_loop, "ok")
    \/ on_message(1)
    \/ on_binary(1)
    \/ on_disconnect(1)
    \/ \E l \in Loops : LoopRun(l)
    \/ HandlerReceive(1)
    \/ HandlerResume(1)
    \/ HandlerFinish(1, "return")

(* ============== the error handler table (app.py:384-399) =============== *)
\* @app.errorhandler(key): the handlers are numbered in registration order
RegisterErrorHandler(key) ==
    /\ Len(err_regs) < MaxHandlers
    /\ LET h == Len(err_regs) + 1 IN
       /\ error_handler_spec' = errorhandler(error_handler_spec, key, h)
       /\ err_regs' = Append(err_regs, [key |-> key, handler |-> h])
    /\ err_exception' = NoException
    /\ err_response' = NoResponse
    /\ UNCHANGED <<hookvars, workload, pvars, wvars, svars, restvars>>

\* dispatch.py:129-130: an exception escaped the pipeline and the except
\* clause calls app._handle_exception(e)
ExceptionEscapes(e) ==
    /\ err_exception' = e
    /\ err_response' = handle_exception(error_handler_spec, e)
    /\ UNCHANGED <<dvars, wvars, svars, restvars, err_regs>>

ErrNext ==
    \/ \E key \in ErrorKeys : RegisterErrorHandler(key)
    \/ \E e \in Exceptions : ExceptionEscapes(e)

(* ============ a session object and its cookie (sessions.py) ============ *)
SInit ==
    /\ sess_obj = NoSession
    /\ sess_opened = {}
    /\ sess_via_jar = FALSE
    /\ sess_resp = NoResponse
    /\ sess_saves = 0
    /\ sess_jar = AbsentCookie
    /\ sess_saved = {}

\* every cookie a request may carry: the ones of RequestCookies and every
\* cookie save_session can have written
AllCookies ==
    RequestCookies \cup {SignedCookie(SignerDumps(d)) : d \in Contents}

\* a request arrives with `cookie` -- one of RequestCookies or the cookie
\* the client kept -- and the wrapper opens the session (dispatch.py:38);
\* when open_session raises there is no session object
SessOpen(cookie) ==
    /\ cookie \in RequestCookies \cup {sess_jar}
    /\ sess_obj' = IF OpenSessionRaises(secret_key, cookie)
                   THEN NoSession
                   ELSE open_session(secret_key, cookie)
    /\ sess_opened' = sess_obj'.data
    /\ sess_via_jar' = (cookie.kind = "signed" /\ cookie = sess_jar)
    /\ sess_saves' = 0
    /\ UNCHANGED <<dvars, wvars, evars, restvars, sess_resp, sess_jar, sess_saved>>

\* application code calls a mutating method of the session
SessSetItem(k, v) ==
    /\ sess_obj.present
    /\ sess_obj' = setitem(sess_obj, k, v)
    /\ sess_via_jar' = FALSE
    /\ sess_saves' = 0
    /\ UNCHANGED <<dvars, wvars, evars, restvars, sess_opened, sess_resp, sess_jar,
                   sess_saved>>

SessDelItem(k) ==
    /\ sess_obj.present
    /\ sess_obj' = delitem(sess_obj, k)
    /\ sess_via_jar' = FALSE
    /\ sess_saves' = 0
    /\ UNCHANGED <<dvars, wvars, evars, restvars, sess_opened, sess_resp, sess_jar,
                   sess_saved>>

SessClear ==
    /\ sess_obj.present
    /\ sess_obj' = clear(sess_obj)
    /\ sess_via_jar' = FALSE
    /\ sess_saves' = 0
    /\ UNCHANGED <<dvars, wvars, evars, restvars, sess_opened, sess_resp, sess_jar,
                   sess_saved>>

SessUpdate(k, v) ==
    /\ sess_obj.present
    /\ sess_obj' = update(sess_obj, k, v)
    /\ sess_via_jar' = FALSE
    /\ sess_saves' = 0
    /\ UNCHANGED <<dvars, wvars, evars, restvars, sess_opened, sess_resp, sess_jar,
                   sess_saved>>

SessPop(k) ==
    /\ sess_obj.present
    /\ sess_obj' = pop(sess_obj, k)
    /\ sess_via_jar' = FALSE
    /\ sess_saves' = 0
    /\ UNCHANGED <<dvars, wvars, evars, restvars, sess_opened, sess_resp, sess_jar,
                   sess_saved>>

SessPopItem(p) ==
    /\ sess_obj.present
    /\ p \in sess_obj.data
    /\ sess_obj' = popitem(sess_obj, p)
    /\ sess_via_jar' = FALSE
    /\ sess_saves' = 0
    /\ UNCHANGED <<dvars, wvars, evars, restvars, sess_opened, sess_resp, sess_jar,
                   sess_saved>>

SessSetDefault(k, v) ==
    /\ sess_obj.present
    /\ sess_obj' = setdefault(sess_obj, k, v)
    /\ sess_via_jar' = FALSE
    /\ sess_saves' = 0
    /\ UNCHANGED <<dvars, wvars, evars, restvars, sess_opened, sess_resp, sess_jar,
                   sess_saved>>

\* the wrapper saves the session to the response of the request
\* (dispatch.py:124); the client keeps, or drops, the cookie it is sent
SessSave ==
    /\ sess_obj.present
    /\ sess_saves < MaxSaves
    /\ LET resp == save_session(secret_key, sess_obj,
                                MakeResponse("handler", 0, "str")) IN
       /\ sess_resp' = resp
       /\ sess_jar' = CASE resp.cookie.kind = "signed" ->
                              SignedCookie(resp.cookie.val)
                        [] resp.cookie.kind = "expired" -> AbsentCookie
                        [] OTHER -> sess_jar
       /\ sess_saved' = CASE resp.cookie.kind = "signed" -> sess_obj.data
                          [] resp.cookie.kind = "expired" -> {}
                          [] OTHER -> sess_saved
    /\ sess_saves' = sess_saves + 1
    /\ UNCHANGED <<dvars, wvars, evars, restvars, sess_obj, sess_opened, sess_via_jar>>

SessNext ==
    \/ \E cookie \in AllCookies : SessOpen(cookie)
    \/ \E k \in Keys, v \in Values : SessSetItem(k, v)
    \/ \E k \in Keys : SessDelItem(k)
    \/ SessClear
    \/ \E k \in Keys, v \in Values : SessUpdate(k, v)
    \/ \E k \in Keys : SessPop(k)
    \/ \E p \in Keys \X Values : SessPopItem(p)
    \/ \E k \in Keys, v \in Values : SessSetDefault(k, v)
    \/ SessSave

(* ======= the background loop of on_connect (websocket.py:153-178) ====== *)
\* the WebSocketHandler objects: RouteRegistration.websocket creates one
\* for each route (routing/decorators.py:358)
HandlerObjs == {"h1", "h2"}

\* engine threads without a running loop
EngineThreads == {"t1", "t2"}

BInit ==
    /\ bg_loop = [h \in HandlerObjs |-> 0]
    /\ bg_created = 0
    /\ bg_pc = [t \in EngineThreads |-> "idle"]
    /\ bg_handler = [t \in EngineThreads |-> "h1"]
    /\ bg_connects = 0
    /\ bg_used = {}

\* the engine calls on_connect of handler object h on thread t, and
\* asyncio.get_running_loop() raises RuntimeError (websocket.py:149-153)
BgEnter(t, h) ==
    /\ bg_pc[t] = "idle"
    /\ bg_connects < MaxConnects
    /\ bg_connects' = bg_connects + 1
    /\ bg_handler' = [bg_handler EXCEPT ![t] = h]
    /\ bg_pc' = [bg_pc EXCEPT ![t] = "check"]
    /\ UNCHANGED <<dvars, wvars, svars, evars, uvars, gvars, bg_loop, bg_created, bg_used>>

\* websocket.py:156: not hasattr(self, "_background_loop") or
\* self._background_loop is None
BgCheck(t) ==
    /\ bg_pc[t] = "check"
    /\ bg_pc' = [bg_pc EXCEPT ![t] =
                    IF bg_loop[bg_handler[t]] = 0 THEN "create" ELSE "submit"]
    /\ UNCHANGED <<dvars, wvars, svars, evars, uvars, gvars, bg_loop, bg_created, bg_handler,
                   bg_connects, bg_used>>

\* websocket.py:166-170: a new event loop is stored in the handler object
\* and a thread is started for it
BgCreate(t) ==
    /\ bg_pc[t] = "create"
    /\ bg_created' = bg_created + 1
    /\ bg_loop' = [bg_loop EXCEPT ![bg_handler[t]] = bg_created + 1]
    /\ bg_pc' = [bg_pc EXCEPT ![t] = "submit"]
    /\ UNCHANGED <<dvars, wvars, svars, evars, uvars, gvars, bg_handler, bg_connects, bg_used>>

\* websocket.py:172-178: loop = self._background_loop;
\* run_coroutine_threadsafe(self.handler_func(ws), loop); return
BgSubmit(t) ==
    /\ bg_pc[t] = "submit"
    /\ bg_used' = bg_used \cup {bg_loop[bg_handler[t]]}
    /\ bg_pc' = [bg_pc EXCEPT ![t] = "idle"]
    /\ UNCHANGED <<dvars, wvars, svars, evars, uvars, gvars, bg_loop, bg_created, bg_handler,
                   bg_connects>>

BgNext ==
    \/ \E t \in EngineThreads, h \in HandlerObjs : BgEnter(t, h)
    \/ \E t \in EngineThreads : BgCheck(t)
    \/ \E t \in EngineThreads : BgCreate(t)
    \/ \E t \in EngineThreads : BgSubmit(t)

(* ===== the registries under concurrent callbacks (websocket.py:145-263) = *)
\* The handler object has no lock: callbacks delivered on different threads
\* interleave between any two dictionary operations.
RegIds == {1, 2}

RegThreads == {"t1", "t2"}

\* the callbacks that start with `if session_id in self._connections`
Deliveries == {"on_message", "on_binary", "on_disconnect"}

KeyError(cb, c) == [cb |-> cb, id |-> c]

GInit ==
    /\ reg_connections = {}
    /\ reg_tasks = {}
    /\ reg_pc = [t \in RegThreads |-> "idle"]
    /\ reg_fn = [t \in RegThreads |-> "none"]
    /\ reg_id = [t \in RegThreads |-> 1]
    /\ reg_engine = [c \in RegIds |-> "new"]
    /\ reg_owner = [c \in RegIds |-> "none"]
    /\ reg_handler = [c \in RegIds |-> "none"]
    /\ reg_hooked = {}
    /\ reg_cleaned = {}
    /\ reg_raised = {}

\* the callback of thread t ends by raising KeyError
RegRaise(t) ==
    /\ reg_raised' = reg_raised \cup {KeyError(reg_fn[t], reg_id[t])}
    /\ reg_pc' = [reg_pc EXCEPT ![t] = "idle"]

\* websocket.py:125-146: on_connect of id c is delivered on thread t and
\* stores the connection; has_loop: the thread runs an event loop
RegConnectStore(t, c, has_loop) ==
    /\ reg_pc[t] = "idle"
    /\ reg_engine[c] = "new"
    /\ reg_engine' = [reg_engine EXCEPT ![c] = "open"]
    /\ reg_connections' = reg_connections \cup {c}
    /\ reg_owner' = [reg_owner EXCEPT ![c] = IF has_loop THEN "main" ELSE "background"]
    /\ reg_fn' = [reg_fn EXCEPT ![t] = "on_connect"]
    /\ reg_id' = [reg_id EXCEPT ![t] = c]
    /\ reg_pc' = [reg_pc EXCEPT ![t] = "submit"]
    /\ UNCHANGED <<dvars, wvars, svars, evars, uvars, bvars, reg_tasks, reg_handler,
                   reg_hooked, reg_cleaned, reg_raised>>

\* websocket.py:152 / 174: the handler coroutine is given to its loop
RegConnectSubmit(t) ==
    /\ reg_pc[t] = "submit"
    /\ reg_handler' = [reg_handler EXCEPT ![reg_id[t]] = "scheduled"]
    /\ reg_pc' = [reg_pc EXCEPT ![t] = "store_task"]
    /\ UNCHANGED <<dvars, wvars, svars, evars, uvars, bvars, reg_connections, reg_tasks,
                   reg_fn, reg_id, reg_engine, reg_owner, reg_hooked, reg_cleaned,
                   reg_raised>>

\* websocket.py:177-178 (future stored, return) / 181-198 (task stored,
\* _task_done_callback added)
RegConnectStoreTask(t) ==
    /\ reg_pc[t] = "store_task"
    /\ reg_tasks' = reg_tasks \cup {reg_id[t]}
    /\ reg_hooked' = IF reg_owner[reg_id[t]] = "main"
                     THEN reg_hooked \cup {reg_id[t]}
                     ELSE reg_hooked
    /\ reg_pc' = [reg_pc EXCEPT ![t] = "idle"]
    /\ UNCHANGED <<dvars, wvars, svars, evars, uvars, bvars, reg_connections, reg_fn,
                   reg_id, reg_engine, reg_owner, reg_handler, reg_cleaned, reg_raised>>

\* the handler coroutine of c ends; a coroutine created on the loop of the
\* thread that runs on_connect starts only after on_connect has returned
RegHandlerFinish(c) ==
    /\ reg_handler[c] = "scheduled"
    /\ reg_owner[c] = "main" => c \in reg_hooked
    /\ reg_handler' = [reg_handler EXCEPT ![c] = "finished"]
    /\ UNCHANGED <<dvars, wvars, svars, evars, uvars, bvars, reg_connections, reg_tasks,
                   reg_pc, reg_fn, reg_id, reg_engine, reg_owner, reg_hooked,
                   reg_cleaned, reg_raised>>

\* websocket.py:202, 240, 252: callback fn of id c is delivered on thread t
\* and tests `session_id in self._connections`; on_disconnect goes on to
\* _cleanup_task (257) when the id is not there
RegDeliver(t, fn, c) ==
    /\ reg_pc[t] = "idle"
    /\ reg_engine[c] = "open"
    /\ reg_engine' = [reg_engine EXCEPT ![c] = IF fn = "on_disconnect" THEN "gone"
                                               ELSE @]
    /\ reg_fn' = [reg_fn EXCEPT ![t] = fn]
    /\ reg_id' = [reg_id EXCEPT ![t] = c]
    /\ reg_pc' = [reg_pc EXCEPT ![t] =
                     IF c \in reg_connections THEN "read"
                     ELSE IF fn = "on_disconnect" THEN "ct_check"
                     ELSE "idle"]
    /\ UNCHANGED <<dvars, wvars, svars, evars, uvars, bvars, reg_connections, reg_tasks,
                   reg_owner, reg_handler, reg_hooked, reg_cleaned, reg_raised>>

\* websocket.py:203, 241, 253: ws = self._connections[session_id]
RegRead(t) ==
    /\ reg_pc[t] = "read"
    /\ IF reg_id[t] \in reg_connections
       THEN /\ reg_pc' = [reg_pc EXCEPT ![t] =
                             IF reg_fn[t] = "on_disconnect" THEN "del_conn"
                             ELSE "idle"]
            /\ UNCHANGED reg_raised
       ELSE RegRaise(t)
    /\ UNCHANGED <<dvars, wvars, svars, evars, uvars, bvars, reg_connections, reg_tasks,
                   reg_fn, reg_id, reg_engine, reg_owner, reg_handler, reg_hooked,
                   reg_cleaned>>

\* websocket.py:254-255: ws._receive_close(reason);
\* del self._connections[session_id]
RegDelConn(t) ==
    /\ reg_pc[t] = "del_conn"
    /\ IF reg_id[t] \in reg_connections
       THEN /\ reg_connections' = reg_connections \ {reg_id[t]}
            /\ reg_pc' = [reg_pc EXCEPT ![t] = "ct_check"]
            /\ UNCHANGED reg_raised
       ELSE /\ RegRaise(t)
            /\ UNCHANGED reg_connections
    /\ UNCHANGED <<dvars, wvars, svars, evars, uvars, bvars, reg_tasks, reg_fn, reg_id,
                   reg_engine, reg_owner, reg_handler, reg_hooked, reg_cleaned>>

\* websocket.py:184-194: the loop runs _task_done_callback of the finished
\* task of c on thread t; it calls _cleanup_task
RegTaskDone(t, c) ==
    /\ reg_pc[t] = "idle"
    /\ reg_handler[c] = "finished"
    /\ c \in reg_hooked
    /\ c \notin reg_cleaned
    /\ reg_cleaned' = reg_cleaned \cup {c}
    /\ reg_fn' = [reg_fn EXCEPT ![t] = "task_done"]
    /\ reg_id' = [reg_id EXCEPT ![t] = c]
    /\ reg_pc' = [reg_pc EXCEPT ![t] = "ct_check"]
    /\ UNCHANGED <<dvars, wvars, svars, evars, uvars, bvars, reg_connections, reg_tasks,
                   reg_engine, reg_owner, reg_handler, reg_hooked, reg_raised>>

\* websocket.py:261: if session_id in self._tasks
RegCleanupCheck(t) ==
    /\ reg_pc[t] = "ct_check"
    /\ reg_pc' = [reg_pc EXCEPT ![t] =
                     IF reg_id[t] \in reg_tasks THEN "ct_del" ELSE "idle"]
    /\ UNCHANGED <<dvars, wvars, svars, evars, uvars, bvars, reg_connections, reg_tasks,
                   reg_fn, reg_id, reg_engine, reg_owner, reg_handler, reg_hooked,
                   reg_cleaned, reg_raised>>

\* websocket.py:263: del self._tasks[session_id]
RegCleanupDel(t) ==
    /\ reg_pc[t] = "ct_del"
    /\ IF reg_id[t] \in reg_tasks
       THEN /\ reg_tasks' = reg_tasks \ {reg_id[t]}
            /\ reg_pc' = [reg_pc EXCEPT ![t] = "idle"]
            /\ UNCHANGED reg_raised
       ELSE /\ RegRaise(t)
            /\ UNCHANGED reg_tasks
    /\ UNCHANGED <<dvars, wvars, svars, evars, uvars, bvars, reg_connections, reg_fn,
                   reg_id, reg_engine, reg_owner, reg_handler, reg_hooked, reg_cleaned>>

RegNext ==
    \/ \E t \in RegThreads, c \in RegIds, has_loop \in BOOLEAN :
          RegConnectStore(t, c, has_loop)
    \/ \E t \in RegThreads : RegConnectSubmit(t)
    \/ \E t \in RegThreads : RegConnectStoreTask(t)
    \/ \E c \in RegIds : RegHandlerFinish(c)
    \/ \E t \in RegThreads, fn \in Deliveries, c \in RegIds : RegDeliver(t, fn, c)
    \/ \E t \in RegThreads : RegRead(t)
    \/ \E t \in RegThreads : RegDelConn(t)
    \/ \E t \in RegThreads, c \in RegIds : RegTaskDone(t, c)
    \/ \E t \in RegThreads : RegCleanupCheck(t)
    \/ \E t \in RegThreads : RegCleanupDel(t)

(* =================== path parameters of one request ================== *)
\* dispatch.py:59, 85: args, kwargs = app._extract_path_params(rule,
\* request.path)
ExtractPathParams ==
    /\ par_pc = "start"
    /\ par_kwargs' = extract_path_params(par_rule, par_path)
    /\ par_pc' = "extracted"
    /\ UNCHANGED <<dvars, wvars, svars, evars, bvars, gvars, par_rule, par_path>>

\* dispatch.py:63, 89: result = handler(**kwargs), for a route that declares
\* no query parameters
CallHandler ==
    /\ par_pc = "extracted"
    /\ par_pc' = "called"
    /\ UNCHANGED <<dvars, wvars, svars, evars, bvars, gvars, par_rule, par_path, par_kwargs>>

ParNext ==
    \/ ExtractPathParams
    \/ CallHandler

\* one step of the wrapper running on frame f
Step(f) ==
    \/ Dispatch(f)
    \/ OpenSession(f)
    \/ BeforeStep(f)
    \/ MwRequestStep(f)
    \/ HandlerStep(f)
    \/ AwaitHandler(f)
    \/ MwResponseStep(f)
    \/ AfterStep(f)
    \/ SaveAndReturn(f)
    \/ HandleException(f)
    \/ TeardownStep(f)
    \/ Release(f)
    \/ Finish(f)

vars == <<dvars, wvars, svars, evars, restvars>>

\* the session workload needs sessions, hence a signing key, and so has the
\* error workload; the parameter outcomes are looked at without sessions;
\* all three with synchronous handlers
\* (sessions and parameters are handled by the same statements in the two
\* wrappers)
Init ==
    /\ DInit
    /\ workload \in Workloads
    /\ is_async \in {AllRoutes(TRUE), AllRoutes(FALSE)}
    /\ workload = SessionWorkload => (secret_key /\ is_async = AllRoutes(FALSE))
    /\ workload = ParamWorkload => (~secret_key /\ is_async = AllRoutes(FALSE))
    /\ workload = ErrorWorkload => (secret_key /\ is_async = AllRoutes(FALSE))
    /\ served = [f \in Frames |-> 0]
    /\ WInit
    /\ SInit
    /\ EInit
    /\ UIdle /\ BInit /\ GInit

\* requests delivered one after the other on one (reused) thread
Next == Step("f1")

Spec == Init /\ [][Next]_vars

\* Two tasks of one scheduler dispatch concurrently: an application with a
\* signing key, an asynchronous handler, one hook of each kind, one
\* middleware and one teardown callback; each frame has served all but the
\* last of its requests.
ConcInit ==
    /\ DInit
    /\ before_request_funcs = 1
    /\ middlewares = 1
    /\ after_request_funcs = 1
    /\ teardown_request_funcs = 1
    /\ secret_key
    /\ is_async = AllRoutes(TRUE)
    /\ workload = PlainWorkload
    /\ served = [f \in Frames |-> MaxRequests - 1]
    /\ WInit
    /\ SInit
    /\ EInit
    /\ UIdle /\ BInit /\ GInit

ConcNext == \E f \in Frames : Step(f)

ConcSpec == ConcInit /\ [][ConcNext]_vars

\* the dispatch side at rest: an application without hooks
DIdle ==
    /\ DInit
    /\ before_request_funcs = 0
    /\ middlewares = 0
    /\ after_request_funcs = 0
    /\ teardown_request_funcs = 0
    /\ ~secret_key
    /\ is_async = AllRoutes(FALSE)
    /\ workload = PlainWorkload
    /\ served = [f \in Frames |-> 0]

WsInit == WInit /\ DIdle /\ SInit /\ EInit /\ UIdle /\ BInit /\ GInit

\* an application with a signing key; the dispatch side at rest
SessInit ==
    /\ DInit
    /\ before_request_funcs = 0
    /\ middlewares = 0
    /\ after_request_funcs = 0
    /\ teardown_request_funcs = 0
    /\ secret_key
    /\ is_async = AllRoutes(FALSE)
    /\ workload = PlainWorkload
    /\ served = [f \in Frames |-> 0]
    /\ WInit
    /\ SInit
    /\ EInit
    /\ UIdle /\ BInit /\ GInit

SessSpec == SessInit /\ [][SessNext]_vars

\* an application whose error handlers are being registered
ErrInit == DIdle /\ WInit /\ SInit /\ EInit /\ UIdle /\ BInit /\ GInit

ErrSpec == ErrInit /\ [][ErrNext]_vars

WsSpec == WsInit /\ [][WsNext]_vars

LifeSpec == WsInit /\ [][LifeNext]_vars

\* engine threads deliver on_connect callbacks of two WebSocket routes
BgSpec == WsInit /\ [][BgNext]_vars

\* the loops keep running: a loop that has a ready callback runs it, a
\* coroutine whose item the loop knows of is resumed
WakeSpec ==
    /\ WsInit
    /\ [][WakeNext]_vars
    /\ \A l \in Loops : WF_vars(LoopRun(l))
    /\ WF_vars(HandlerResume(1))

\* engine threads and loops run the callbacks of one handler object
RegSpec == WsInit /\ [][RegNext]_vars

\* The same request is sent to a route with a plain handler (frame f1,
\* create_sync_wrapper) and to a route of the same application with a
\* coroutine handler (frame f2, create_async_wrapper); hooks, middleware
\* and teardown callbacks are registered or not, sessions are on or off.
EqInit ==
    /\ DInit
    /\ before_request_funcs \in {0, 1}
    /\ middlewares \in {0, 1}
    /\ after_request_funcs \in {0, 1}
    /\ teardown_request_funcs \in {0, 1}
    /\ is_async = [f \in Frames |-> f = "f2"]
    /\ workload = PlainWorkload
    /\ served = [f \in Frames |-> MaxRequests - 1]
    /\ WInit
    /\ SInit
    /\ EInit
    /\ UIdle /\ BInit /\ GInit

\* the wrapper call on the coroutine route starts when the call on the
\* plain route has ended; the frames stay as they are at the end of their
\* calls
InTurn(f) == f = "f2" => pc["f1"] = "done"

EqNext ==
    \/ \E f \in Frames : InTurn(f) /\ Dispatch(f)
    \/ \E f \in Frames : InTurn(f) /\ OpenSession(f)
    \/ \E f \in Frames : InTurn(f) /\ BeforeStep(f)
    \/ \E f \in Frames : InTurn(f) /\ MwRequestStep(f)
    \/ \E f \in Frames : InTurn(f) /\ HandlerStep(f)
    \/ \E f \in Frames : InTurn(f) /\ AwaitHandler(f)
    \/ \E f \in Frames : InTurn(f) /\ MwResponseStep(f)
    \/ \E f \in Frames : InTurn(f) /\ AfterStep(f)
    \/ \E f \in Frames : InTurn(f) /\ SaveAndReturn(f)
    \/ \E f \in Frames : InTurn(f) /\ HandleException(f)
    \/ \E f \in Frames : InTurn(f) /\ TeardownStep(f)
    \/ \E f \in Frames : InTurn(f) /\ Release(f)

EqSpec == EqInit /\ [][EqNext]_vars

\* a request the router matched to a route with a parameter
ParInit ==
    /\ DIdle
    /\ WInit
    /\ SInit
    /\ EInit
    /\ par_rule \in Rules
    /\ par_path \in MatchingPaths(par_rule)
    /\ par_kwargs = {}
    /\ par_pc = "start"
    /\ BInit
    /\ GInit

ParSpec == ParInit /\ [][ParNext]_vars

(* ====================== properties of the dispatch ===================== *)
Calls(f, ev) == SelectSeq(log[f], LAMBDA e : e.ev = ev)

PreSteps == {"before", "process_request"}

HookSteps == {"open_session", "before", "process_request", "handler",
              "process_response", "after", "save_session", "teardown"}

\* the request of frame f is bound and not yet released
Bound(f) ==
    /\ \E n \in DOMAIN log[f] : log[f][n].ev = "acquire"
    /\ \A n \in DOMAIN log[f] : log[f][n].ev # "release"

\* the wrapper of frame f executed a return statement outside the except
\* clause
ReturnedNormally(f) ==
    \E n \in DOMAIN log[f] : log[f][n].ev = "return" /\ log[f][n].out # "except"

\* C1: when a dispatch that bound the request-context slot has finished, the
\* slot was released exactly once, whatever the exit path.
C1_ReleasedExactlyOnce ==
    \A f \in Frames :
        (pc[f] = "done" /\ token[f].bound) => Len(Calls(f, "release")) = 1

\* C2: while the request of a frame is bound, the frame's slot holds this
\* request, and every hook or handler call made between the acquire and the
\* release read this request from the slot, whatever the other frame does.
C2_ReadsOwnRequest ==
    \A f \in Frames :
        /\ Bound(f) => slot[f] = request[f]
        /\ \A n \in DOMAIN log[f] :
              ( /\ log[f][n].ev \in HookSteps
                /\ \E m \in 1..(n - 1) : log[f][m].ev = "acquire"
                /\ \A m \in 1..(n - 1) : log[f][m].ev # "release" )
              => log[f][n].cur = request[f]

\* both frames are between acquire and release, each with a different
\* request, and each has had a hook or its handler read the slot
C2_Witness ==
    \A f \in Frames :
        /\ Bound(f)
        /\ \E n \in DOMAIN log[f] : log[f][n].ev \in {"before", "handler"}
        /\ \A g \in Frames \ {f} : request[g] # request[f]

\* C7: the first pre-phase step returning a non-null result ends the
\* pre-phase: no later pre-phase step and no handler call follows it, and a
\* normally returned response is that result.
C7_FirstNonNullStopsPrePhase ==
    \A f \in Frames : \A n \in DOMAIN log[f] :
        (log[f][n].ev \in PreSteps /\ log[f][n].ret # NoResponse)
        => /\ \A m \in DOMAIN log[f] :
                 m > n => log[f][m].ev \notin (PreSteps \cup {"handler"})
           /\ \A m \in DOMAIN log[f] :
                 (log[f][m].ev = "return" /\ log[f][m].out # "except")
                 => /\ log[f][m].ret.origin = log[f][n].ret.origin
                    /\ log[f][m].ret.by = log[f][n].ret.by

\* C8: in the response phase the process_response calls are made in reverse
\* registration order, each middleware at most once and, once the phase is
\* over, exactly once; the first receives the response that entered the
\* phase and every later one the value its predecessor returned.
C8_ResponseChainReversed ==
    \A f \in Frames :
        LET P == Calls(f, "process_response") IN
        /\ Len(P) <= middlewares
        /\ \A k \in 1..Len(P) : P[k].idx = middlewares - k + 1
        /\ \A k \in 1..(Len(P) - 1) : P[k + 1].inp = P[k].ret
        /\ \A n \in DOMAIN log[f] :
              (log[f][n].ev = "process_response" /\ log[f][n].idx = middlewares)
              => /\ n > 1
                 /\ log[f][n - 1].ev \in {"process_request", "handler"}
                 /\ log[f][n].inp = log[f][n - 1].ret
        /\ ( \/ pc[f] \in {"after", "save"}
             \/ \E n \in DOMAIN log[f] :
                   log[f][n].ev = "return" /\ log[f][n].out = "full" )
           => /\ Len(P) = middlewares
              /\ \A k \in 1..Len(P) : P[k].out = "ok"

\* a finished request whose response went through at least two middleware
C8_Witness ==
    \E f \in Frames :
        /\ pc[f] = "done"
        /\ middlewares >= 2
        /\ Len(Calls(f, "process_response")) = middlewares
        /\ outcome[f].kind = "return"
        /\ outcome[f].path = "full"

\* C9: when a pre-phase step returned a non-null result and the wrapper
\* returned normally, every middleware's process_response ran, the first of
\* them on that result.
C9_PostPhaseRunsOverShortCircuit ==
    \A f \in Frames : \A n \in DOMAIN log[f] :
        ( /\ log[f][n].ev \in PreSteps
          /\ log[f][n].ret # NoResponse
          /\ ReturnedNormally(f) )
        => LET P == Calls(f, "process_response") IN
           /\ Len(P) = middlewares
           /\ middlewares > 0 => P[1].inp = log[f][n].ret

\* C10: once the finally block has run its teardown loop, every registered
\* teardown callback was called exactly once, in order, and the wrapper's
\* outcome is still the response of the return statement it executed: a
\* raising teardown callback changed neither.
C10_TeardownIsolated ==
    \A f \in Frames :
        pc[f] \in {"release", "done"}
        => LET T == Calls(f, "teardown")
               R == Calls(f, "return") IN
           /\ Len(T) = teardown_request_funcs
           /\ \A k \in 1..Len(T) : T[k].idx = k
           /\ Len(R) = 1
           /\ outcome[f].path # "release"
              => outcome[f] = Returned(R[1].ret, R[1].out)
           /\ pc[f] = "release" => outcome[f].kind = "return"

\* a finished request whose first teardown callback raised, the second ran
\* and the response was returned
C10_Witness ==
    \E f \in Frames :
        LET T == Calls(f, "teardown") IN
        /\ pc[f] = "done"
        /\ Len(T) >= 2
        /\ T[1].out = "raise"
        /\ outcome[f].kind = "return"

ParamEvents(f) == Calls(f, "extract_params")

\* C14: a handler is never invoked after a path segment stayed unconverted,
\* and a request whose parameter was malformed (unconverted segment, or a
\* ValidationError raised by validate) gets a response with a 4xx status.
C14_BadParameterIs4xx ==
    \A f \in Frames :
        /\ \A n \in DOMAIN log[f] :
              (log[f][n].ev = "extract_params" /\ log[f][n].out = "unconverted")
              => \A m \in DOMAIN log[f] : m > n => log[f][m].ev # "handler"
        /\ ( /\ \E n \in DOMAIN ParamEvents(f) :
                    ParamEvents(f)[n].out \in {"unconverted", "invalid"}
             /\ outcome[f].kind = "return" )
           => outcome[f].triple.status \in 400..499

\* C15: when the wrapper returned a non-error response for a request with a
\* signing key and the session's flag was set, the response carries the
\* session: an expired cookie for an empty session, the signed content for
\* a non-empty one.
C15_DirtySessionPersisted ==
    \A f \in Frames :
        ( /\ outcome[f].kind = "return"
          /\ outcome[f].path \in {"before", "full"}
          /\ secret_key
          /\ session[f].present
          /\ session[f].modified )
        => LET c == outcome[f].resp.cookie IN
           IF SessionEmpty(session[f])
           THEN c.kind = "expired"
           ELSE c.kind = "signed" /\ c.val = SignerDumps(session[f].data)

BadCookieKinds == {"tampered", "garbage", "badpayload"}

\* C20: open_session on a request whose cookie has a bad signature or an
\* invalid format does not raise and gives a fresh empty session.
C20_BadCookieRecovered ==
    \A f \in Frames : \A n \in DOMAIN log[f] :
        ( /\ log[f][n].ev = "open_session"
          /\ log[f][n].inp.cookie.kind \in BadCookieKinds )
        => /\ log[f][n].out = "ok"
           /\ n = Len(log[f]) => session[f] = NewSession({})

\* C21: open_session returns None exactly when no signing key is configured
\* (whatever cookie the request carries), and in an application without a
\* signing key no wrapper call has a session, and no response, on any
\* path, has a session cookie written to it.
C21_SessionsDisabled ==
    /\ \A key \in BOOLEAN, cookie \in RequestCookies :
          ~OpenSessionRaises(key, cookie)
          => (open_session(key, cookie) = NoSession <=> ~key)
    /\ ~secret_key
       => \A f \in Frames :
             /\ session[f] = NoSession
             /\ response[f].cookie = NoCookie
             /\ outcome[f].resp.cookie = NoCookie
             /\ \A n \in DOMAIN log[f] :
                   /\ log[f][n].ev # "save_session"
                   /\ log[f][n].ret.cookie = NoCookie

\* without a signing key, a request went through middleware and an
\* after-request hook, reached the save step and its wrapper call finished
C21_Witness ==
    \E f \in Frames :
        /\ ~secret_key
        /\ middlewares > 0
        /\ after_request_funcs > 0
        /\ pc[f] = "done"
        /\ outcome[f].kind = "return"
        /\ outcome[f].path = "full"
        /\ outcome[f].resp.origin = "handler"

\* C23: whenever no wrapper call is running on a frame (none was started,
\* or the last one has finished, on whatever exit path), the frame's
\* request-context slot holds no request: it holds what it held before the
\* call bound it.
C23_SlotRestoredAfterDispatch ==
    \A f \in Frames :
        pc[f] \in {"done", "idle"}
        => /\ slot[f] = Empty
           /\ token[f].bound => slot[f] = token[f].old

\* a wrapper call that bound its request has finished by raising out of
\* the finally block (the before-request short-circuit had already reset
\* the slot), and the slot is back to its former value
C23_Witness ==
    \E f \in Frames :
        /\ pc[f] = "done"
        /\ token[f].bound
        /\ outcome[f] = Raised("release")
        /\ request[f] # Empty
        /\ slot[f] = token[f].old

(* ================= properties of the path parameters ================== *)
\* a decimal integer: digits only
IsDecimalInteger(seg) == AllDigits(seg)

\* C22: when the handler is called for a route with an integer-typed
\* parameter, written <name:int> as in the example /user/<id:int>, and the
\* segment at its place is a decimal integer, kwargs binds the declared name
\* to the integer value.
C22_IntParamBoundAsInteger ==
    par_pc = "called"
    => \A k \in DOMAIN par_rule :
          (/\ par_rule[k] = <<"<", "id", ":", "int", ">">>
           /\ IsDecimalInteger(par_path[k]))
          => <<<<"id">>, IntVal(int(par_path[k]))>> \in par_kwargs

\* C22 (amended): when the handler is called for a route with an
\* integer-typed parameter, written <int:name> as in /user/<int:id>, and
\* the segment at its place is a decimal integer, kwargs binds the declared
\* name to the integer value.
C22_IntParamBoundAsIntegerFlaskStyle ==
    par_pc = "called"
    => \A k \in DOMAIN par_rule :
          (/\ par_rule[k] = <<"<", "int", ":", "id", ">">>
           /\ IsDecimalInteger(par_path[k]))
          => <<<<"id">>, IntVal(int(par_path[k]))>> \in par_kwargs

\* route /user/<int:id>, request /user/42: the handler was called with
\* id = 42, an integer
C22_Witness ==
    /\ par_pc = "called"
    /\ par_rule = <<<<"user">>, <<"<", "int", ":", "id", ">">>>>
    /\ par_path = <<<<"user">>, <<"4", "2">>>>
    /\ par_kwargs = {<<<<"id">>, IntVal(42)>>}

(* ================== properties of the error handlers =================== *)
\* the registrations that match exception e, by the kind of their key
TypeMatches(e) ==
    {n \in DOMAIN err_regs :
        err_regs[n].key.is_type /\ KeyMatches(err_regs[n].key, e)}

CodeMatches(e) ==
    {n \in DOMAIN err_regs :
        ~err_regs[n].key.is_type /\ KeyMatches(err_regs[n].key, e)}

Earliest(S) == CHOOSE n \in S : \A m \in S : n <= m

\* C12: when registered handlers match the exception, the response is the
\* one of the earliest registered matching type-keyed handler or, when no
\* type-keyed handler matches, of the earliest registered matching
\* code-keyed handler.
C12_TypeFirstThenFirstRegistered ==
    LET e == err_exception IN
    (e # NoException /\ TypeMatches(e) \cup CodeMatches(e) # {})
    => /\ err_response.origin = "errorhandler"
       /\ err_response.by =
             IF TypeMatches(e) # {}
             THEN err_regs[Earliest(TypeMatches(e))].handler
             ELSE err_regs[Earliest(CodeMatches(e))].handler

\* C13: an exception that no registered handler matches gets a response
\* with status 500 whose body ends with the exception message.
C13_DefaultIs500 ==
    LET e == err_exception IN
    (e # NoException /\ TypeMatches(e) \cup CodeMatches(e) = {})
    => /\ err_response.status = 500
       /\ \E k \in 0..Len(err_response.body) :
             SubSeq(err_response.body, k + 1, Len(err_response.body))
                 = Encode(e.msg)

\* C13 (amended): an exception that no registered handler matches gets a
\* response whose status is the exception's `code` when it has one and 500
\* otherwise, and whose body is the exception message after the fixed
\* text "Internal Server Error: ".
C13_DefaultIsCodeOr500 ==
    LET e == err_exception IN
    (e # NoException /\ TypeMatches(e) \cup CodeMatches(e) = {})
    => /\ err_response.origin = "error"
       /\ err_response.status = (IF e.code = NoCode THEN 500 ELSE e.code)
       /\ err_response.body = Encode(<<"Internal Server Error: ">> \o e.msg)

\* an exception carrying code 404 escaped while only handlers for other
\* keys were registered, and was answered by the default response
C13_Witness ==
    /\ err_exception = Exc("HTTPException", 404)
    /\ err_regs # <<>>
    /\ TypeMatches(err_exception) \cup CodeMatches(err_exception) = {}
    /\ err_response.origin = "error"
    /\ err_response.status = 404

(* ===================== properties of the sessions ====================== *)
\* C16: after save_session, the response carries an expired cookie when the
\* session is empty and dirty, the signed serialized content with the
\* configured domain, path, secure and same-site attributes when it is
\* non-empty and dirty, and is unchanged when the session is not dirty.
C16_SaveDecision ==
    sess_saves > 0
    => LET c == sess_resp.cookie IN
       /\ (SessionEmpty(sess_obj) /\ sess_obj.modified)
          => (c.kind = "expired" /\ c.val = {} /\ "expires" \in c.attrs)
       /\ (~SessionEmpty(sess_obj) /\ sess_obj.modified)
          => /\ c.kind = "signed"
             /\ c.val = SignerDumps(sess_obj.data)
             /\ {"domain", "path", "secure", "samesite"} \subseteq c.attrs
       /\ ~sess_obj.modified => sess_resp = MakeResponse("handler", 0, "str")

\* an emptied, dirty session was saved
C16_Witness ==
    /\ sess_saves > 0
    /\ sess_opened # {}
    /\ SessionEmpty(sess_obj)
    /\ sess_obj.modified
    /\ sess_resp.cookie.kind = "expired"

\* C17: however often a session whose flag is clear has been saved, the
\* response of the latest save carries no session cookie.
C17_CleanSaveWritesNothing ==
    (sess_saves > 0 /\ ~sess_obj.modified) => sess_resp.cookie = NoCookie

\* a non-empty session loaded from a cookie was saved twice, unmodified
C17_Witness ==
    /\ sess_saves >= 2
    /\ ~sess_obj.modified
    /\ sess_obj.data # {}
    /\ sess_resp.cookie = NoCookie

\* C18: a session opened from the cookie that save_session wrote has the
\* content the saved session had.
C18_RoundTrip ==
    sess_via_jar => sess_obj.data = sess_saved

\* C19: a session whose content differs from the content it was opened with
\* has its flag set.
C19_MutationSetsFlag ==
    (sess_obj.present /\ sess_obj.data # sess_opened) => sess_obj.modified

(* ================== properties of the WebSocket bridge ================= *)
\* the payloads, without end-of-stream results, that receive() returned
ObservedPayloads(c) == SelectSeq(observed[c], LAMBDA m : m # EOS)

ObservedText(c) == SelectSeq(observed[c], LAMBDA m : m.kind = "text")

Increasing(q) == \A a, b \in DOMAIN q : a < b => q[a].n < q[b].n

\* the messages the engine delivered for c before on_disconnect(c)
DeliveredBeforeDisconnect(c) ==
    {delivered[c][k] : k \in {j \in DOMAIN delivered[c] :
        /\ delivered[c][j] # EOS
        /\ \A i \in 1..(j - 1) : delivered[c][i] # EOS}}

\* C3: the text messages a handler has received came out in the order in
\* which on_message delivered them.
C3_TextOrderPreserved ==
    \A c \in ConnIds : Increasing(ObservedText(c))

\* C4: text and binary payloads of one connection are received in the order
\* in which the engine delivered the callbacks.
C4_SharedQueueOrder ==
    \A c \in ConnIds : Increasing(ObservedPayloads(c))

\* C5: when the handler's stream reports end-of-stream, every message the
\* engine delivered before on_disconnect has been received before it.
C5_NoDropBeforeEndOfStream ==
    \A c \in ConnIds : \A p \in DOMAIN observed[c] :
        observed[c][p] = EOS
        => \A m \in DeliveredBeforeDisconnect(c) :
              \E q \in 1..(p - 1) : observed[c][q] = m

\* C6: after on_disconnect a receive() never stays suspended on an empty
\* queue, and once receive() has returned end-of-stream it never returns a
\* payload again.
C6_EndOfStreamTerminal ==
    \A c \in ConnIds :
        /\ (cstate[c] = "gone" /\ hstate[c] = "waiting") => messages[c] # <<>>
        /\ \A p, q \in DOMAIN observed[c] :
              (p < q /\ observed[c][p] = EOS) => observed[c][q] = EOS

\* the handler of c is suspended in receive() and on_disconnect(c) has put
\* the end-of-stream marker on the queue it waits for
SuspendedAtDisconnect(c) ==
    /\ cstate[c] = "gone"
    /\ hstate[c] = "waiting"
    /\ messages[c] = <<EOS>>

\* receive() has returned end-of-stream to the handler of c
SawEndOfStream(c) == \E p \in DOMAIN observed[c] : observed[c][p] = EOS

\* C24: when on_disconnect(c) has come while the handler of c was suspended
\* in receive(), and the loops keep running, the handler is eventually
\* resumed and its receive() returns end-of-stream.
C24_PendingConsumerWakes ==
    \A c \in ConnIds : SuspendedAtDisconnect(c) ~> SawEndOfStream(c)


\* on_connect(c) was delivered and returned without raising
Connected(c) ==
    /\ cstate[c] # "new"
    /\ \A e \in escaped : ~(e.cb = "on_connect" /\ e.id = c)

Finished(c) == hstate[c] \in {"done", "failed"}

\* a callback for c of kind fn waits in the ready queue of some loop
Pending(c, fn) ==
    \E l \in Loops : \E k \in DOMAIN ready[l] :
        ready[l][k].fn = fn /\ ready[l][k].id = c

\* C27: once the handler coroutine of a connection has finished and the
\* loops have run the callbacks this made ready, the connection has no
\* entry in the pending-task registry, whichever loop ran the handler.
C27_EntryRemovedAfterFinish ==
    \A c \in ConnIds :
        (Finished(c) /\ ~Pending(c, "done")) => tasks[c] = "none"

\* C28: no connection ever has more than one handler execution; the
\* task-tracking entry of a connection whose handler was scheduled is gone
\* only when its disconnect has been processed and its handler coroutine
\* has finished, so never while the coroutine is running or suspended.
C28_EntryKeptWhileHandlerRuns ==
    \A c \in ConnIds :
        /\ scheduled[c] <= 1
        /\ (scheduled[c] = 1 /\ tasks[c] = "none")
           => (cstate[c] = "gone" /\ Finished(c))
        /\ hstate[c] \in {"running", "waiting"} => tasks[c] # "none"

\* C29: a connection id in the live registry has had a handler scheduled.
C29_NoHalfInitializedConnection ==
    \A c \in ConnIds : c \in connections => scheduled[c] > 0


\* a step in which the handler coroutine of c raises, or in which the
\* registry entry of a connection whose handler has raised is dealt with
HandlerErrorStep(c) ==
    \/ hstate[c] # "failed" /\ hstate'[c] = "failed"
    \/ hstate[c] = "failed" /\ tasks'[c] # tasks[c]

\* the queue and the registry entries of connection d stay as they are
EntriesUnchanged(d) ==
    /\ messages'[d] = messages[d]
    /\ tasks'[d] = tasks[d]
    /\ (d \in connections') = (d \in connections)
    /\ closed'[d] = closed[d]

\* C30: no exception that left an engine callback comes from a handler
\* coroutine, and the steps in which a handler coroutine raises and in which
\* its failure is cleaned up leave the queue and the registry entries of
\* every other connection as they are.
C30_HandlerErrorContained ==
    /\ [](\A e \in escaped : e.cause # "handler")
    /\ [][\A c \in ConnIds :
            HandlerErrorStep(c)
            => \A d \in ConnIds \ {c} : EntriesUnchanged(d)]_vars

\* the handler of connection 1 raised on the caller's loop and its done
\* callback has run, while connection 2 is live with a queued message and
\* its entry in place; nothing has left an engine callback
C30_Witness ==
    /\ hstate[1] = "failed"
    /\ owner[1] = "main"
    /\ tasks[1] = "none"
    /\ 1 \in connections
    /\ 2 \in connections
    /\ tasks[2] # "none"
    /\ messages[2] # <<>>
    /\ escaped = {}


(* ================= properties of the background loop ================== *)
\* C26: at most one background event loop is ever created in the process,
\* and every handler coroutine handed to a background loop went to that
\* one.
C26_SingleBackgroundLoop ==
    /\ bg_created <= 1
    /\ bg_used \subseteq {1}


(* ============ properties of the inbound path (continued) ============== *)
\* the step appends an item to the queue of c or sets its closed flag
InboundChange(c) ==
    \/ Len(messages'[c]) > Len(messages[c])
    \/ closed'[c] # closed[c]

\* the step is the loop of c's handler running a callback for c that a
\* thread-safe handoff had put in its ready queue
OnOwningScheduler(c) ==
    /\ owner[c] \in Loops
    /\ ready[owner[c]] # <<>>
    /\ Head(ready[owner[c]]).id = c
    /\ ready'[owner[c]] = Tail(ready[owner[c]])

\* C31: whenever an item is appended to a connection's inbound queue or its
\* closed flag changes, the step is the connection's owning scheduler
\* running a callback handed to it; no engine callback changes the queue or
\* the flag on the delivering thread.
C31_InboundChangesOnOwningScheduler ==
    [][\A c \in ConnIds : InboundChange(c) => OnOwningScheduler(c)]_vars


(* ================= properties of the registries ======================= *)
\* every callback for id c has ended: no thread is inside one, and a
\* done callback the finished task has is not waiting to run
Quiescent(c) ==
    /\ \A t \in RegThreads : reg_pc[t] # "idle" => reg_id[t] # c
    /\ (c \in reg_hooked /\ reg_handler[c] = "finished") => c \in reg_cleaned

\* C32: with the callbacks of one handler object interleaved on different
\* threads, no callback raises because an id it found was removed meanwhile,
\* and once an id's disconnect callback has ended and its handler coroutine
\* has finished, the id has no entry in the live or the pending-task
\* registry.
C32_RegistryAsIfExclusive ==
    /\ reg_raised = {}
    /\ \A c \in RegIds :
          (reg_engine[c] = "gone" /\ reg_handler[c] = "finished" /\ Quiescent(c))
          => (c \notin reg_connections /\ c \notin reg_tasks)


\* C33: every inbound item handed to a scheduler for connection c goes to
\* the scheduler on which the handler coroutine of c was scheduled at
\* connect time, whatever loops other connections use or create later.
C33_ItemsHandedToOwningScheduler ==
    \A l \in Loops : \A k \in DOMAIN ready[l] :
        ready[l][k].fn = "receive" => owner[ready[l][k].id] = l


(* ================= isolation of the connections ======================= *)
\* the items of a sequence
Items(q) == {q[k] : k \in DOMAIN q}

\* the step is an engine callback for c, or a loop running the callback
\* that on_message handed to it for c
DeliveryStep(c) ==
    \/ delivered'[c] # delivered[c]
    \/ \E l \in Loops :
          /\ ready[l] # <<>>
          /\ ready'[l] = Tail(ready[l])
          /\ Head(ready[l]).fn = "receive"
          /\ Head(ready[l]).id = c

\* C40: what is in the queue of a connection or was returned by its
\* receive() was delivered for that connection, a connection is closed only
\* by its own disconnect, and a step that delivers a payload or a close
\* marker for connection c leaves the queue, the closed flag and the
\* registry entries of every other connection as they are.
C40_ConnectionsIsolated ==
    /\ [](\A c \in ConnIds :
            /\ Items(messages[c]) \subseteq Items(delivered[c])
            /\ Items(observed[c]) \subseteq Items(delivered[c]) \cup {EOS}
            /\ closed[c] => cstate[c] = "gone")
    /\ [][\A c \in ConnIds :
            DeliveryStep(c) => \A d \in ConnIds \ {c} : EntriesUnchanged(d)]_vars

\* connection 1 got a text message and was disconnected, connection 2 got
\* a binary message and is still open; both handlers have received their
\* own payload
C40_Witness ==
    /\ Payload("text", 1) \in Items(observed[1])
    /\ Payload("binary", 1) \in Items(observed[2])
    /\ closed[1]
    /\ ~closed[2]
    /\ 2 \in connections
    /\ 1 \notin connections


(* ============== properties of the dispatch (continued) ================ *)
\* in the log of frame f every call of a step in A comes before every call
\* of a step in B
Precedes(f, A, B) ==
    \A n \in DOMAIN log[f] : \A m \in DOMAIN log[f] :
        (log[f][n].ev \in A /\ log[f][m].ev \in B) => n < m

\* the steps of one request up to the session save are in pipeline order
OrderedUpToSave(f) ==
    /\ Precedes(f, {"open_session"}, PreSteps)
    /\ Precedes(f, {"handler"}, {"process_response"})
    /\ Precedes(f, {"process_response"}, {"after", "save_session"})
    /\ Precedes(f, {"save_session"}, {"teardown"})

\* C34: within one request session open precedes every pre-phase hook, the
\* handler precedes post-phase middleware, post-phase middleware precedes
\* after-request hooks and session save, session save precedes teardown,
\* and every teardown callback runs before the context is released, with
\* the request still bound.
C34_PipelineOrder ==
    \A f \in Frames :
        /\ OrderedUpToSave(f)
        /\ Precedes(f, {"teardown"}, {"release", "clear"})
        /\ \A n \in DOMAIN log[f] :
              (log[f][n].ev = "teardown" /\ request[f] # Empty)
              => log[f][n].cur = request[f]


\* the position in the log of frame f of the handler call that returned
\* a result (0 when there is none)
HandlerReturnedAt(f) ==
    IF \E n \in DOMAIN log[f] : log[f][n].ev = "handler" /\ log[f][n].out # "raise"
    THEN CHOOSE n \in DOMAIN log[f] :
            log[f][n].ev = "handler" /\ log[f][n].out # "raise"
    ELSE 0

\* the wrapper of frame f executed the return statement of path `path`
ReturnedBy(f, path) ==
    \E n \in DOMAIN log[f] : log[f][n].ev = "return" /\ log[f][n].out = path

\* the calls of step ev in the log of frame f that were made after position
\* h and returned
PassedAfter(f, h, ev) ==
    {n \in DOMAIN log[f] : n > h /\ log[f][n].ev = ev /\ log[f][n].out # "raise"}

\* C35: the wrapper returns through the direct-emit fast path only when no
\* middleware is registered, there is no session, no after-request hook is
\* registered and the handler result is a string, bytes or a dict; a handler
\* result returned through the ordinary return statement has passed through
\* the process_response of every middleware, every after-request hook and,
\* when there is a session, its save; and no handler result is returned
\* any other way.
C35_FastPathOnlyWhenNothingToRun ==
    \A f \in Frames :
        LET h == HandlerReturnedAt(f) IN
        /\ ReturnedBy(f, "fast")
           => /\ middlewares = 0
              /\ ~session[f].present
              /\ after_request_funcs = 0
              /\ h > 0
              /\ log[f][h].out \in FastKinds
        /\ (h > 0 /\ ReturnedBy(f, "full"))
           => /\ Cardinality(PassedAfter(f, h, "process_response")) = middlewares
              /\ Cardinality(PassedAfter(f, h, "after")) = after_request_funcs
              /\ Cardinality(PassedAfter(f, h, "save_session"))
                    = (IF session[f].present THEN 1 ELSE 0)
        /\ h > 0 => ~ReturnedBy(f, "before")

\* a request with a session, two middleware and an after-request hook whose
\* handler returned a string that was returned by the ordinary return
\* statement
C35_Witness ==
    \E f \in Frames :
        /\ pc[f] = "done"
        /\ middlewares >= 2
        /\ after_request_funcs >= 1
        /\ session[f].present
        /\ HandlerReturnedAt(f) > 0
        /\ log[f][HandlerReturnedAt(f)].out = "str"
        /\ outcome[f].kind = "return"
        /\ outcome[f].path = "full"


\* C36: every wrapper call ends by returning a (body, status, headers)
\* triple to the engine; no outcome of session open, hooks, middleware,
\* handler, session save or teardown makes the wrapper raise.
C36_WrapperNeverRaises ==
    \A f \in Frames :
        pc[f] = "done"
        => /\ outcome[f].kind = "return"
           /\ outcome[f].triple # NoTriple


\* the steps before the post-phase that may raise
RaisingSteps == {"handler", "before", "process_request"}

PostSteps == {"process_response", "after", "save_session"}

\* a step of RaisingSteps raised in the request of frame f
RaisedBeforePostPhase(f) ==
    \E n \in DOMAIN log[f] :
        log[f][n].ev \in RaisingSteps /\ log[f][n].out = "raise"

\* resp is what the error handler table, or else the default error
\* response, gives for exception e
IsErrorResponseFor(resp, e) ==
    LET n == FirstMatch(error_handler_spec, e) IN
    IF n # 0
    THEN /\ resp.origin = "errorhandler"
         /\ resp.by = error_handler_spec[n].handler
    ELSE /\ resp.origin = "error"
         /\ resp.status = DefaultStatus(e)
         /\ resp.val = DefaultBody(e)

\* C38: when the handler or a pre-phase step raised, no process_response, no
\* after-request hook and no session save is called afterwards; the wrapper
\* returns the response of the error handler table or the default error
\* response, converted, and before it does every teardown callback has run
\* and the context was released once, the slot being restored.
C38_ErrorPathSkipsPostPhase ==
    \A f \in Frames :
        /\ \A n \in DOMAIN log[f] : \A m \in DOMAIN log[f] :
              ( /\ log[f][n].ev \in RaisingSteps
                /\ log[f][n].out = "raise"
                /\ m > n )
              => log[f][m].ev \notin PostSteps
        /\ (RaisedBeforePostPhase(f) /\ pc[f] = "done")
           => /\ outcome[f].kind = "return"
              /\ outcome[f].path = "except"
              /\ IsErrorResponseFor(outcome[f].resp, exc[f])
              /\ outcome[f].triple = response_to_rust_format(outcome[f].resp)
              /\ Len(Calls(f, "teardown")) = teardown_request_funcs
              /\ Len(Calls(f, "release")) = 1
              /\ slot[f] = Empty

\* a request with a session, in an application with a middleware, an
\* after-request hook, a teardown callback and an error handler for 404,
\* whose handler raised an HTTPException with code 404: the error handler's
\* response was returned
C38_Witness ==
    \E f \in Frames :
        /\ pc[f] = "done"
        /\ middlewares >= 1
        /\ after_request_funcs >= 1
        /\ teardown_request_funcs >= 1
        /\ session[f].present
        /\ exc[f] = Exc("HTTPException", 404)
        /\ Len(Calls(f, "handler")) = 1
        /\ outcome[f].resp.origin = "errorhandler"


(* ============ the two wrappers side by side (dispatch.py) ============== *)
\* an event of frame f without the identity of the frame's request: what
\* the slot held is told as the request, nothing, or something else
Seen(f, e) ==
    [e EXCEPT !.cur = IF e.cur = request[f] THEN "request"
                      ELSE IF e.cur = Empty THEN "nothing"
                      ELSE "other"]

\* the log of frame f, so told
View(f) == [n \in DOMAIN log[f] |-> Seen(f, log[f][n])]

\* the length of the longest common prefix of two sequences
CommonLen(A, B) ==
    Cardinality({k \in DOMAIN A \cap DOMAIN B : \A j \in 1..k : A[j] = B[j]})

\* which step an event is a call of and what the wrapper gave it (not what
\* the step did); the cookie open_session reads belongs to the request
StepOf(e) ==
    [ev |-> e.ev, idx |-> e.idx, cur |-> e.cur,
     inp |-> IF e.ev = "open_session" THEN NoResponse ELSE e.inp]

\* the steps that are the wrapper's own statements: the same history gives
\* the same event
OwnSteps == {"acquire", "save_session", "release", "clear", "return",
             "handle_exception"}

\* the two requests were both converted, or both conversions failed
SameConversion == (request["f1"] = Empty) = (request["f2"] = Empty)

OpenedAt(f) ==
    IF \E n \in DOMAIN log[f] : log[f][n].ev = "open_session" /\ log[f][n].out = "ok"
    THEN CHOOSE n \in DOMAIN log[f] :
            log[f][n].ev = "open_session" /\ log[f][n].out = "ok"
    ELSE 0

\* the session cookie the request of frame f carried
CarriedCookie(f) == log[f][OpenedAt(f)].inp.cookie

\* the hooks and the handler that ran so far in frame f left the session as
\* open_session returned it
OnlyRead(f) == session[f] = open_session(secret_key, CarriedCookie(f))

\* the responses frame f saved the session to or returned
ResponsesOut(f) ==
    {log[f][n].ret : n \in {m \in DOMAIN log[f] :
                               log[f][m].ev \in {"save_session", "return"}}}

\* C39: the session open_session returned -- for a request without cookie,
\* with a cookie whose signature does not verify, or with a valid cookie --
\* has its flag clear; and while the hooks and the handler of the request
\* have only read the session, no response of the request carries a session
\* cookie: not the one the session was saved to, not the one returned.
C39_ReadOnlyRequestWritesNoCookie ==
    \A f \in Frames :
        (OpenedAt(f) > 0 /\ session[f].present)
        => /\ Len(log[f]) = OpenedAt(f) => ~session[f].modified
           /\ OnlyRead(f)
              => /\ ~session[f].modified
                 /\ \A r \in ResponsesOut(f) : r.cookie = NoCookie
                 /\ outcome[f].kind = "return"
                    => /\ outcome[f].resp.cookie = NoCookie
                       /\ outcome[f].triple
                             = response_to_rust_format(
                                  [outcome[f].resp EXCEPT !.cookie = NoCookie])

\* a request with a cookie whose signature does not verify ran a
\* before-request hook and its handler, which left the session alone, saved
\* the fresh session and returned a response without cookie
C39_Witness ==
    \E f \in Frames :
        /\ OpenedAt(f) > 0
        /\ CarriedCookie(f).kind = "tampered"
        /\ session[f].present
        /\ OnlyRead(f)
        /\ HandlerReturnedAt(f) > 0
        /\ \E n \in DOMAIN log[f] : log[f][n].ev = "before"
        /\ \E n \in DOMAIN log[f] : log[f][n].ev = "save_session"
        /\ ReturnedBy(f, "full")
        /\ outcome[f].kind = "return"
        /\ outcome[f].resp.cookie = NoCookie


====
